---- MODULE Spec2Model ----
(***************************************************************************)
(* State-machine model of VimTextArea (vimkeys_input/vim_textarea.py) and  *)
(* of the helpers it is composed from: CountHandler, OperatorPendingState, *)
(* OperatorMotionHandler and the navigation / editing / visual / text      *)
(* object mixins.                                                          *)
(*                                                                         *)
(* The widget is kept in one record `w' while a key event is handled, so   *)
(* that a handler that calls several methods in sequence is the            *)
(* composition of the operators that model them.  The buffer primitives    *)
(* the mixins call on the host TextArea (cursor actions, delete_right,     *)
(* delete_line, insert, replace) are modelled by the operators of the      *)
(* section "Host buffer"; they follow the host's line/selection contract:  *)
(* the cursor is the end of the selection, left/right wrap over line ends, *)
(* up on the first row goes to its start and down on the last row to its   *)
(* end, word motions stop at every boundary between word and non-word      *)
(* characters.  Vertical moves clamp the column to the target line (the    *)
(* host's remembered column is not modelled).                              *)
(*                                                                         *)
(* Positions are <<row, col>>, 0-indexed as in the source.  A line is a    *)
(* sequence of one-character strings.  NoPos (the empty tuple) stands for  *)
(* a position that is None, the string "None" for any other None.          *)
(***************************************************************************)
EXTENDS Integers, Sequences, FiniteSets, TLC

\* ------------------------------------------------------------------ bounds

\* Number of key events explored from an initial state.
MaxKeys == 3

\* Largest number of characters the buffer may hold (growth by typing,
\* paste and open-line is cut off there).
MaxChars == 19

\* ------------------------------------------------------------- characters

NL == "\n"

\* The characters matched by \w.
WordChars ==
    {"a", "b", "c", "d", "e", "f", "g", "h", "i", "j", "k", "l", "m", "n",
     "o", "p", "q", "r", "s", "t", "u", "v", "w", "x", "y", "z",
     "A", "C", "D", "G", "I", "J", "O", "P", "X",
     "0", "1", "2", "3", "4", "5", "6", "7", "8", "9", "_"}

SpaceChars == {" ", NL}

IsWord(ch) == ch \in WordChars

IsSpace(ch) == ch \in SpaceChars

\* --------------------------------------------------------- python helpers

Min(a, b) == IF a < b THEN a ELSE b

Max(a, b) == IF a > b THEN a ELSE b

Clamp(v, lo, hi) == Max(lo, Min(v, hi))

\* seq[a:b] with Python's clamping of the two indices (both >= 0 here).
Slice(s, a, b) ==
    LET lo == Clamp(a, 0, Len(s))
        hi == Clamp(b, 0, Len(s))
    IN  IF lo >= hi THEN <<>> ELSE SubSeq(s, lo + 1, hi)

\* seq[i], 0-indexed.
At(s, i) == s[i + 1]

\* "\n".join(lines)
RECURSIVE JoinLines(_)
JoinLines(ls) ==
    IF ls = <<>> THEN <<>>
    ELSE IF Len(ls) = 1 THEN ls[1]
    ELSE ls[1] \o <<NL>> \o JoinLines(Tail(ls))

\* str.splitlines(): the pieces between newlines, without a last empty piece.
RECURSIVE SplitLinesFrom(_, _)
SplitLinesFrom(s, cur) ==
    IF s = <<>> THEN (IF cur = <<>> THEN <<>> ELSE <<cur>>)
    ELSE IF Head(s) = NL THEN <<cur>> \o SplitLinesFrom(Tail(s), <<>>)
    ELSE SplitLinesFrom(Tail(s), Append(cur, Head(s)))

SplitLines(s) == SplitLinesFrom(s, <<>>)

EndsWithNL(s) == s # <<>> /\ s[Len(s)] = NL

\* str.rstrip("\n")
RECURSIVE RStripNL(_)
RStripNL(s) == IF EndsWithNL(s) THEN RStripNL(SubSeq(s, 1, Len(s) - 1)) ELSE s

\* str.lstrip() / str.rstrip(): whitespace off one end.
RECURSIVE LStrip(_)
LStrip(s) == IF s # <<>> /\ IsSpace(Head(s)) THEN LStrip(Tail(s)) ELSE s

RECURSIVE RStrip(_)
RStrip(s) ==
    IF s # <<>> /\ IsSpace(s[Len(s)]) THEN RStrip(SubSeq(s, 1, Len(s) - 1)) ELSE s

\* ------------------------------------------------------------ host buffer

NoPos == <<>>

Row(p) == p[1]

Col(p) == p[2]

PosLE(p, q) == Row(p) < Row(q) \/ (Row(p) = Row(q) /\ Col(p) <= Col(q))

PosMin(p, q) == IF PosLE(p, q) THEN p ELSE q

PosMax(p, q) == IF PosLE(p, q) THEN q ELSE p

line_count(w) == Len(w.lines)

get_line(w, row) == w.lines[row + 1]

cursor_location(w) == w.sel_end

selection_is_empty(w) == w.sel_start = w.sel_end

text_of(w) == JoinLines(w.lines)

TotalChars(ls) == Len(JoinLines(ls))

\* Document.get_text_range
get_text_range(ls, a, b) ==
    LET top == PosMin(a, b)
        bot == PosMax(a, b)
    IN  IF Row(top) = Row(bot)
        THEN Slice(ls[Row(top) + 1], Col(top), Col(bot))
        ELSE JoinLines(
                 <<Slice(ls[Row(top) + 1], Col(top), Len(ls[Row(top) + 1]))>>
                 \o SubSeq(ls, Row(top) + 2, Row(bot))
                 \o <<Slice(ls[Row(bot) + 1], 0, Col(bot))>>)

selected_text(w) == get_text_range(w.lines, w.sel_start, w.sel_end)

\* The selection setter clamps both ends to a location of the document.
clamp_visitable(ls, p) ==
    LET r == Clamp(Row(p), 0, Len(ls) - 1)
    IN  <<r, Clamp(Col(p), 0, Len(ls[r + 1]))>>

set_selection(w, s, e) ==
    [w EXCEPT !.sel_start = clamp_visitable(w.lines, s),
              !.sel_end = clamp_visitable(w.lines, e)]

move_cursor(w, loc, select) ==
    IF select THEN set_selection(w, w.sel_start, loc)
    ELSE set_selection(w, loc, loc)

\* The cursor_location setter keeps a non-empty selection's start.
set_cursor_location(w, loc) == move_cursor(w, loc, ~selection_is_empty(w))

cursor_at_start_of_text(w) == w.sel_end = <<0, 0>>

cursor_at_end_of_text(w) ==
    w.sel_end = <<line_count(w) - 1, Len(w.lines[line_count(w)])>>

get_cursor_left_location(w) ==
    LET r == Row(w.sel_end)
        c == Col(w.sel_end)
    IN  IF cursor_at_start_of_text(w) THEN <<0, 0>>
        ELSE IF c # 0 THEN <<r, c - 1>>
        ELSE <<r - 1, Len(get_line(w, r - 1))>>

get_cursor_right_location(w) ==
    LET r == Row(w.sel_end)
        c == Col(w.sel_end)
    IN  IF cursor_at_end_of_text(w) THEN w.sel_end
        ELSE IF c = Len(get_line(w, r)) THEN <<r + 1, 0>>
        ELSE <<r, c + 1>>

get_cursor_up_location(w) ==
    LET r == Row(w.sel_end)
        c == Col(w.sel_end)
    IN  IF r = 0 THEN <<0, 0>>
        ELSE <<r - 1, Min(c, Len(get_line(w, r - 1)))>>

get_cursor_down_location(w) ==
    LET r == Row(w.sel_end)
        c == Col(w.sel_end)
    IN  IF r = line_count(w) - 1 THEN <<r, Len(get_line(w, r))>>
        ELSE <<r + 1, Min(c, Len(get_line(w, r + 1)))>>

\* A collapsed move left/right from a non-empty selection goes to its edge.
action_cursor_left(w) ==
    move_cursor(w,
        IF selection_is_empty(w) THEN get_cursor_left_location(w)
        ELSE PosMin(w.sel_start, w.sel_end), FALSE)

action_cursor_right(w) ==
    move_cursor(w,
        IF selection_is_empty(w) THEN get_cursor_right_location(w)
        ELSE PosMax(w.sel_start, w.sel_end), FALSE)

action_cursor_up(w) == move_cursor(w, get_cursor_up_location(w), FALSE)

action_cursor_down(w) == move_cursor(w, get_cursor_down_location(w), FALSE)

action_cursor_line_start(w) == move_cursor(w, <<Row(w.sel_end), 0>>, FALSE)

action_cursor_line_end(w) ==
    move_cursor(w, <<Row(w.sel_end), Len(get_line(w, Row(w.sel_end)))>>, FALSE)

\* Offsets i (0 < i < Len(s)) where a word character meets a non-word one:
\* the matches of the host's word pattern in s.
WordBoundaries(s) ==
    {i \in 1..(Len(s) - 1) : IsWord(s[i]) # IsWord(s[i + 1])}

SetMin(S) == CHOOSE x \in S : \A y \in S : x <= y

SetMax(S) == CHOOSE x \in S : \A y \in S : x >= y

get_cursor_word_right_location(w) ==
    LET r == Row(w.sel_end)
        c == Col(w.sel_end)
        line == get_line(w, r)
        rest == Slice(line, c, Len(line))
        stripped == LStrip(rest)
        strip_offset == Len(rest) - Len(stripped)
        ms == WordBoundaries(stripped)
    IN  IF r < line_count(w) - 1 /\ c = Len(line) THEN <<r + 1, 0>>
        ELSE IF ms # {} THEN <<r, c + SetMin(ms) + strip_offset>>
        ELSE <<r, Len(line)>>

get_cursor_word_left_location(w) ==
    LET r == Row(w.sel_end)
        c == Col(w.sel_end)
        ms == WordBoundaries(RStrip(Slice(get_line(w, r), 0, c)))
    IN  IF r > 0 /\ c = 0 THEN <<r - 1, Len(get_line(w, r - 1))>>
        ELSE IF ms # {} THEN <<r, SetMax(ms)>>
        ELSE <<r, 0>>

action_cursor_word_right(w) ==
    IF cursor_at_end_of_text(w) THEN w
    ELSE move_cursor(w, get_cursor_word_right_location(w), FALSE)

action_cursor_word_left(w) ==
    IF cursor_at_start_of_text(w) THEN w
    ELSE move_cursor(w, get_cursor_word_left_location(w), FALSE)

\* The text to insert as lines: splitlines(), and one more empty line when the
\* text ends with a newline.
insert_lines(text) ==
    SplitLines(text) \o (IF EndsWithNL(text) THEN << <<>> >> ELSE <<>>)

\* lines[top_row : bottom_row + 1] = insert_lines, with the kept head of the
\* first line and the kept tail of the last, and the location where the
\* inserted text ends (tail of Document.replace_range).
splice_lines(ls, top, bot, ins, before, after) ==
    IF ins = <<>>
    THEN [lines |-> SubSeq(ls, 1, Row(top)) \o <<before \o after>>
                    \o SubSeq(ls, Row(bot) + 2, Len(ls)),
          end_location |-> <<Row(top), Len(before)>>]
    ELSE IF Len(ins) = 1
    THEN [lines |-> SubSeq(ls, 1, Row(top)) \o <<before \o ins[1] \o after>>
                    \o SubSeq(ls, Row(bot) + 2, Len(ls)),
          end_location |-> <<Row(top), Len(before) + Len(ins[1])>>]
    ELSE [lines |-> SubSeq(ls, 1, Row(top))
                    \o <<before \o ins[1]>>
                    \o SubSeq(ins, 2, Len(ins) - 1)
                    \o <<ins[Len(ins)] \o after>>
                    \o SubSeq(ls, Row(bot) + 2, Len(ls)),
          end_location |-> <<Row(top) + Len(ins) - 1, Len(ins[Len(ins)])>>]

\* Document.replace_range: the lines after replacing [top, bottom) by text,
\* and the location where the inserted text ends.
replace_range(ls, a, b, text) ==
    splice_lines(ls, PosMin(a, b), PosMax(a, b), insert_lines(text),
        IF Row(PosMin(a, b)) >= Len(ls) THEN <<>>
        ELSE Slice(ls[Row(PosMin(a, b)) + 1], 0, Col(PosMin(a, b))),
        IF Row(PosMax(a, b)) >= Len(ls) THEN <<>>
        ELSE Slice(ls[Row(PosMax(a, b)) + 1], Col(PosMax(a, b)),
                   Len(ls[Row(PosMax(a, b)) + 1])))

\* A location of the selection after an edit that ended at endl instead of
\* bot: it keeps its offset to the end of the edit.
shift_location(p, bot, endl) ==
    <<IF Row(bot) <= Row(p) THEN Row(p) + (Row(endl) - Row(bot)) ELSE Row(p),
      IF Row(bot) = Row(p) /\ Col(bot) <= Col(p)
      THEN Col(p) + (Col(endl) - Col(bot)) ELSE Col(p)>>

\* Edit.do / Edit.after once the document is replaced: the new selection.
edit_done(w, res, bot, maintain) ==
    IF maintain
    THEN set_selection([w EXCEPT !.lines = res.lines],
                       shift_location(w.sel_start, bot, res.end_location),
                       shift_location(w.sel_end, bot, res.end_location))
    ELSE set_selection([w EXCEPT !.lines = res.lines],
                       res.end_location, res.end_location)

\* TextArea.edit: apply the replacement and move the selection.  An edit made
\* through the keyboard puts the cursor where the inserted text ends; one made
\* through insert/replace/delete keeps the selection's offset to the edit.
edit(w, text, a, b, maintain) ==
    edit_done(w, replace_range(w.lines, a, b, text), PosMax(a, b), maintain)

insert(w, text) == edit(w, text, w.sel_end, w.sel_end, TRUE)

replace(w, text, a, b) == edit(w, text, a, b, TRUE)

replace_via_keyboard(w, text, a, b) == edit(w, text, a, b, FALSE)

action_delete_right(w) ==
    replace_via_keyboard(w, <<>>, w.sel_start,
        IF selection_is_empty(w) THEN get_cursor_right_location(w) ELSE w.sel_end)

action_delete_left(w) ==
    replace_via_keyboard(w, <<>>, w.sel_start,
        IF selection_is_empty(w) THEN get_cursor_left_location(w) ELSE w.sel_end)

\* move_cursor_relative(columns=end_column) after the deletion.
move_cursor_columns(w, columns) ==
    move_cursor(w, <<Row(w.sel_end), Col(w.sel_end) + columns>>, FALSE)

\* Deletes the lines the selection touches, [(row, 0), (row + 1, 0)); the
\* cursor keeps its column where the following line allows it.
action_delete_line(w) ==
    move_cursor_columns(
        replace_via_keyboard(w, <<>>,
            <<Row(PosMin(w.sel_start, w.sel_end)), 0>>,
            <<(IF Row(w.sel_start) # Row(w.sel_end)
                  /\ Col(PosMax(w.sel_start, w.sel_end)) = 0
               THEN Row(PosMax(w.sel_start, w.sel_end)) - 1
               ELSE Row(PosMax(w.sel_start, w.sel_end))) + 1, 0>>),
        Col(PosMax(w.sel_start, w.sel_end)))

action_delete_to_end_of_line(w) ==
    replace_via_keyboard(w, <<>>, w.sel_end,
        <<Row(w.sel_end), Len(get_line(w, Row(w.sel_end)))>>)

clear(w) ==
    edit(w, <<>>, <<0, 0>>,
         <<line_count(w) - 1, Len(w.lines[line_count(w)])>>, FALSE)

\* ----------------------------------------------------------- CountHandler

DigitKeys == {"0", "1", "2", "3", "4", "5", "6", "7", "8", "9"}

\* int(key) for a digit key
DigitVal(k) ==
    CASE k = "0" -> 0 [] k = "1" -> 1 [] k = "2" -> 2 [] k = "3" -> 3
      [] k = "4" -> 4 [] k = "5" -> 5 [] k = "6" -> 6 [] k = "7" -> 7
      [] k = "8" -> 8 [] k = "9" -> 9

\* int(count_str)
RECURSIVE ParseInt(_)
ParseInt(ds) ==
    IF ds = <<>> THEN 0
    ELSE 10 * ParseInt(SubSeq(ds, 1, Len(ds) - 1)) + DigitVal(ds[Len(ds)])

add_digit(w, digit) ==
    IF digit \notin DigitKeys THEN w
    ELSE IF digit = "0" /\ w.count_str = <<>> THEN w
    ELSE [w EXCEPT !.count_str = Append(w.count_str, digit),
                   !.count = ParseInt(Append(w.count_str, digit))]

get_count(w, default) == IF w.count = 0 THEN default ELSE w.count

count_clear(w) == [w EXCEPT !.count = 0, !.count_str = <<>>]

\* --------------------------------------------------- OperatorPendingState

set_operator(w, operator, count) ==
    [w EXCEPT !.operator = operator, !.op_count = count]

is_pending(w) == w.operator # "None"

operator_clear(w) ==
    [w EXCEPT !.operator = "None", !.op_count = 0, !.motion_count = 0]

\* get_total_count with the counts added where the source multiplies them.
total_count_added(count, motion_count) ==
    IF count > 0 /\ motion_count > 0 THEN count + motion_count
    ELSE IF count > 0 THEN count
    ELSE IF motion_count > 0 THEN motion_count
    ELSE 1

total_count(count, motion_count) ==
    IF count > 0 /\ motion_count > 0 THEN count * motion_count
    ELSE IF count > 0 THEN count
    ELSE IF motion_count > 0 THEN motion_count
    ELSE 1

get_total_count(w) == total_count(w.op_count, w.motion_count)

set_motion_count(w, count) == [w EXCEPT !.motion_count = count]

\* ------------------------------------------------------- mode transitions

\* self.post_message(message): the message joins those posted during this
\* key event.
post_message(w, message) == [w EXCEPT !.posted = Append(@, message)]

\* The messages the widget posts.
Submitted(text) == <<"Submitted", text>>

ModeChanged(mode) == <<"ModeChanged", mode>>

\* _update_mode_display: the CSS classes are not modelled, the ModeChanged
\* message is; notified_mode is the mode the last such message carried.
update_mode_display_silent(w) == [w EXCEPT !.notified_mode = w.vim_mode]

update_mode_display(w) ==
    post_message([w EXCEPT !.notified_mode = w.vim_mode], ModeChanged(w.vim_mode))

enter_insert_mode(w) == update_mode_display([w EXCEPT !.vim_mode = "INSERT"])

enter_command_mode(w) ==
    update_mode_display(
        [w EXCEPT !.vim_mode = "COMMAND",
                  !.visual_start = NoPos,
                  !.pending_command = "None",
                  !.count = 0,
                  !.count_str = <<>>,
                  !.text_object_state = "None"])

enter_visual_mode(w) ==
    update_mode_display(
        [w EXCEPT !.vim_mode = "VISUAL", !.visual_start = cursor_location(w)])

prevent_default(w) == [w EXCEPT !.prevented = TRUE]

\* -------------------------------------------------------- NavigationMixin

nav_left(w) == action_cursor_left(w)

nav_down(w) == action_cursor_down(w)

nav_up(w) == action_cursor_up(w)

nav_right(w) == action_cursor_right(w)

nav_word_forward(w) == action_cursor_word_right(w)

nav_word_backward(w) == action_cursor_word_left(w)

\* The second half of nav_word_end: back one column unless at a line end.
word_end_back(w) ==
    IF Col(cursor_location(w)) > 0
       /\ Col(cursor_location(w)) < Len(get_line(w, Row(cursor_location(w))))
    THEN action_cursor_left(w)
    ELSE w

nav_word_end(w) == word_end_back(action_cursor_word_right(w))

nav_line_start(w) == action_cursor_line_start(w)

nav_line_end(w) == action_cursor_line_end(w)

nav_first_non_whitespace(w) ==
    LET row == Row(cursor_location(w))
        line == get_line(w, row)
        idx == {i \in 0..(Len(line) - 1) : ~IsSpace(At(line, i))}
    IN  IF idx # {} THEN set_cursor_location(w, <<row, SetMin(idx)>>)
        ELSE action_cursor_line_start(w)

nav_document_start(w) == set_cursor_location(w, <<0, 0>>)

nav_document_end(w) ==
    IF line_count(w) > 0 THEN set_cursor_location(w, <<line_count(w) - 1, 0>>)
    ELSE w

\* ----------------------------------------------------------- EditingMixin

edit_delete_char(w) == action_delete_right(w)

edit_delete_char_back(w) == action_delete_left(w)

edit_replace_char(w, char) ==
    action_cursor_left(insert(action_delete_right(w), char))

edit_delete_line(w) ==
    action_delete_line(
        [w EXCEPT !.yank_register = get_line(w, Row(cursor_location(w)))])

edit_yank_line(w) ==
    [w EXCEPT !.yank_register = get_line(w, Row(cursor_location(w)))]

edit_delete_to_line_end(w) ==
    LET line == get_line(w, Row(cursor_location(w)))
    IN  action_delete_to_end_of_line(
            [w EXCEPT !.yank_register =
                          Slice(line, Col(cursor_location(w)), Len(line))])

edit_change_line(w) == enter_insert_mode(edit_delete_line(w))

edit_paste_after_inline(w) ==
    IF w.yank_register = <<>> THEN w
    ELSE insert(action_cursor_right(w), w.yank_register)

edit_paste_after(w) ==
    IF w.yank_register = <<>> THEN w
    ELSE IF EndsWithNL(w.yank_register)
    THEN insert(action_cursor_line_end(w), <<NL>> \o RStripNL(w.yank_register))
    ELSE insert(action_cursor_right(w), w.yank_register)

edit_paste_before(w) ==
    IF w.yank_register = <<>> THEN w
    ELSE IF EndsWithNL(w.yank_register)
    THEN action_cursor_up(insert(action_cursor_line_start(w), w.yank_register))
    ELSE insert(w, w.yank_register)

edit_open_line_below(w) == insert(action_cursor_line_end(w), <<NL>>)

edit_open_line_above(w) ==
    action_cursor_up(insert(action_cursor_line_start(w), <<NL>>))

RECURSIVE delete_right_times(_, _)

\* One more round of the loop; a round that changes nothing is the last one
\* that needs computing, every later round repeats it.
delete_right_next(w, w1, n) ==
    IF w1 = w THEN w ELSE delete_right_times(w1, n - 1)

delete_right_times(w, n) ==
    IF n <= 0 THEN w ELSE delete_right_next(w, action_delete_right(w), n)

\* edit_delete_word after the word motion from start: w is the widget after it.
delete_word_range(w, start) ==
    IF Row(start) = Row(cursor_location(w))
    THEN delete_right_times(
             set_cursor_location(
                 [w EXCEPT !.yank_register =
                      Slice(get_line(w, Row(start)), Col(start),
                            Col(cursor_location(w)))],
                 start),
             Col(cursor_location(w)) - Col(start))
    ELSE w

edit_delete_word(w) ==
    delete_word_range(action_cursor_word_right(w), cursor_location(w))

edit_change_word(w) == enter_insert_mode(edit_delete_word(w))

edit_join_lines_unguarded(w) ==
    LET row == Row(cursor_location(w))
    IN  insert(
            set_cursor_location(
                action_delete_line(set_cursor_location(w, <<row + 1, 0>>)),
                <<row, Len(get_line(w, row))>>),
            <<" ">> \o LStrip(get_line(w, Min(row + 1, line_count(w) - 1))))

edit_join_lines(w) ==
    LET row == Row(cursor_location(w))
    IN  IF row >= line_count(w) - 1 THEN w
        ELSE insert(
                 set_cursor_location(
                     action_delete_line(set_cursor_location(w, <<row + 1, 0>>)),
                     <<row, Len(get_line(w, row))>>),
                 <<" ">> \o LStrip(get_line(w, row + 1)))

\* ------------------------------------------------------------ VisualMixin

make_inclusive_end(w, row, col) ==
    IF col < Len(get_line(w, row)) THEN <<row, col + 1>> ELSE <<row, col>>

extend_selection(w, new_row, new_col) ==
    set_cursor_location(
        set_selection(w,
            IF selection_is_empty(w) THEN cursor_location(w) ELSE w.sel_start,
            make_inclusive_end(w, new_row, new_col)),
        <<new_row, new_col>>)

visual_left(w) ==
    LET row == Row(cursor_location(w))
        col == Col(cursor_location(w))
    IN  IF col > 0 THEN extend_selection(w, row, col - 1) ELSE w

visual_down(w) ==
    LET row == Row(cursor_location(w))
        col == Col(cursor_location(w))
    IN  IF row < line_count(w) - 1 THEN extend_selection(w, row + 1, col) ELSE w

visual_up(w) ==
    LET row == Row(cursor_location(w))
        col == Col(cursor_location(w))
    IN  IF row > 0 THEN extend_selection(w, row - 1, col) ELSE w

visual_right(w) ==
    LET row == Row(cursor_location(w))
        col == Col(cursor_location(w))
    IN  IF col < Len(get_line(w, row)) THEN extend_selection(w, row, col + 1) ELSE w

\* Shared tail of visual_word_forward / visual_word_backward: w is the widget
\* before the navigation, w1 after it.
restore_selection(w, w1) ==
    LET selection_start ==
            IF ~selection_is_empty(w) THEN w.sel_start ELSE cursor_location(w)
        new == cursor_location(w1)
    IN  set_selection(w1, selection_start,
                      make_inclusive_end(w1, Row(new), Col(new)))

visual_word_forward(w) == restore_selection(w, nav_word_forward(w))

visual_word_backward(w) == restore_selection(w, nav_word_backward(w))

visual_line_start(w) == extend_selection(w, Row(cursor_location(w)), 0)

visual_line_end(w) ==
    LET row == Row(cursor_location(w))
        n == Len(get_line(w, row))
    IN  extend_selection(w, row, IF n > 0 THEN Max(0, n - 1) ELSE 0)

visual_yank(w) ==
    IF selected_text(w) # <<>>
    THEN [w EXCEPT !.yank_register = selected_text(w)]
    ELSE w

visual_delete_unyanked(w) ==
    IF selected_text(w) # <<>>
    THEN replace(w, <<>>, w.sel_start, w.sel_end)
    ELSE w

visual_delete(w) ==
    IF selected_text(w) # <<>>
    THEN replace([w EXCEPT !.yank_register = selected_text(w)],
                 <<>>, w.sel_start, w.sel_end)
    ELSE w

visual_change(w) == enter_insert_mode(visual_delete(w))

Indent == <<" ", " ", " ", " ">>

RECURSIVE indent_rows(_, _, _)
indent_rows(w, row, end_row) ==
    IF row > end_row THEN w
    ELSE indent_rows(
             replace(w, Indent \o get_line(w, row),
                     <<row, 0>>, <<row, Len(get_line(w, row))>>),
             row + 1, end_row)

visual_indent(w) ==
    indent_rows(w, Min(Row(w.sel_start), Row(w.sel_end)),
                Max(Row(w.sel_start), Row(w.sel_end)))

\* A line that does not start with four spaces takes the else branch,
\* line.lstrip(" ", 1): str.lstrip accepts one argument, so the call raises
\* TypeError and the loop stops there.
RECURSIVE dedent_rows(_, _, _)
dedent_rows(w, row, end_row) ==
    IF row > end_row THEN w
    ELSE IF Slice(get_line(w, row), 0, 4) = Indent
    THEN dedent_rows(
             replace(w, Slice(get_line(w, row), 4, Len(get_line(w, row))),
                     <<row, 0>>, <<row, Len(get_line(w, row))>>),
             row + 1, end_row)
    ELSE [w EXCEPT !.error = "TypeError"]

visual_dedent(w) ==
    dedent_rows(w, Min(Row(w.sel_start), Row(w.sel_end)),
                Max(Row(w.sel_start), Row(w.sel_end)))

\* The case operators compute the new text and then call self.action_delete(),
\* which the host TextArea does not define (it has action_delete_left,
\* action_delete_right, action_delete_line ...): with a selection the call
\* raises AttributeError before the text is replaced.
visual_toggle_case_yanking(w) ==
    IF selected_text(w) = <<>> THEN w
    ELSE [w EXCEPT !.yank_register = selected_text(w),
                   !.error = "AttributeError"]

visual_toggle_case(w) ==
    IF selected_text(w) = <<>> THEN w ELSE [w EXCEPT !.error = "AttributeError"]

visual_uppercase(w) ==
    IF selected_text(w) = <<>> THEN w ELSE [w EXCEPT !.error = "AttributeError"]

visual_lowercase(w) ==
    IF selected_text(w) = <<>> THEN w ELSE [w EXCEPT !.error = "AttributeError"]

\* -------------------------------------------------- OperatorMotionHandler

MotionKeys == {"h", "j", "k", "l", "w", "b", "e", "0", "dollar", "circumflex"}

\* motion_map[key](): the navigation function a motion key stands for.
motion(w, key) ==
    CASE key = "h" -> nav_left(w)
      [] key = "j" -> nav_down(w)
      [] key = "k" -> nav_up(w)
      [] key = "l" -> nav_right(w)
      [] key = "w" -> nav_word_forward(w)
      [] key = "b" -> nav_word_backward(w)
      [] key = "e" -> nav_word_end(w)
      [] key = "0" -> nav_line_start(w)
      [] key = "dollar" -> nav_line_end(w)
      [] key = "circumflex" -> nav_first_non_whitespace(w)

\* for _ in range(count): motion_func()
RECURSIVE repeat_motion(_, _, _)

\* One more round of the loop, cut at a fixed point of the motion.
repeat_motion_next(w, w1, key, count) ==
    IF w1 = w THEN w ELSE repeat_motion(w1, key, count - 1)

repeat_motion(w, key, count) ==
    IF count <= 0 THEN w ELSE repeat_motion_next(w, motion(w, key), key, count)

\* The d and c branches of _apply_operator: yank the range, put the cursor at
\* its start and delete it character by character.
delete_range_inclusive(w, row, start_col, end_col) ==
    delete_right_times(
        set_cursor_location(
            [w EXCEPT !.yank_register = Slice(get_line(w, row), start_col, end_col)],
            <<row, start_col>>),
        end_col - start_col + 1)

delete_range(w, row, start_col, end_col) ==
    delete_right_times(
        set_cursor_location(
            [w EXCEPT !.yank_register = Slice(get_line(w, row), start_col, end_col)],
            <<row, start_col>>),
        end_col - start_col)

\* The handlers below return [w |-> widget, ok |-> returned bool].
apply_operator(w, operator, start_pos, end_pos) ==
    LET row == Row(start_pos)
        start_col == Min(Col(start_pos), Col(end_pos))
        end_col == Max(Col(start_pos), Col(end_pos))
    IN  IF Row(start_pos) # Row(end_pos) THEN [w |-> w, ok |-> FALSE]
        ELSE IF operator = "d"
        THEN [w |-> delete_range(w, row, start_col, end_col), ok |-> TRUE]
        ELSE IF operator = "c"
        THEN [w |-> enter_insert_mode(delete_range(w, row, start_col, end_col)),
              ok |-> TRUE]
        ELSE IF operator = "y"
        THEN [w |-> set_cursor_location(
                        [w EXCEPT !.yank_register =
                             Slice(get_line(w, row), start_col, end_col)],
                        start_pos),
              ok |-> TRUE]
        ELSE [w |-> w, ok |-> FALSE]

\* execute_operator_motion after the motion from start_pos: w is the widget
\* after it.
operator_on_range(w, operator, start_pos) ==
    IF start_pos = cursor_location(w) THEN [w |-> w, ok |-> FALSE]
    ELSE apply_operator(w, operator, start_pos, cursor_location(w))

execute_operator_motion(w, operator, key, count) ==
    operator_on_range(repeat_motion(w, key, count), operator, cursor_location(w))

RECURSIVE delete_line_times(_, _)

\* One more round of the loop, cut at a fixed point of the deletion.
delete_line_next(w, w1, n) ==
    IF w1 = w THEN w ELSE delete_line_times(w1, n - 1)

delete_line_times(w, n) ==
    IF n <= 0 THEN w ELSE delete_line_next(w, edit_delete_line(w), n)

yanked_lines_single(w, row, count) ==
    [i \in 1..Max(0, Min(1, line_count(w) - row)) |-> get_line(w, row + i - 1)]

\* lines.append(str(get_line(row + i))) for the i with row + i < line_count
yanked_lines(w, row, count) ==
    [i \in 1..Max(0, Min(count, line_count(w) - row)) |-> get_line(w, row + i - 1)]

execute_line_operator(w, operator, count) ==
    IF operator = "d" THEN [w |-> delete_line_times(w, count), ok |-> TRUE]
    ELSE IF operator = "y"
    THEN [w |-> [w EXCEPT !.yank_register =
                     JoinLines(yanked_lines(w, Row(cursor_location(w)), count))
                     \o <<NL>>],
          ok |-> TRUE]
    ELSE IF operator = "c"
    THEN [w |-> enter_insert_mode(delete_line_times(w, count)), ok |-> TRUE]
    ELSE [w |-> w, ok |-> FALSE]

\* ------------------------------------------------------------ SearchMixin

\* The methods return a value next to changing the widget: [w, ok].

\* line.find(char, from): the least index >= from that holds char, or -1.
find(line, char, from) ==
    IF \E i \in from..(Len(line) - 1) : At(line, i) = char
    THEN SetMin({i \in from..(Len(line) - 1) : At(line, i) = char})
    ELSE -1

\* line.rfind(char, 0, to): the greatest index < to that holds char, or -1.
rfind(line, char, to) ==
    IF \E i \in 0..(Min(to, Len(line)) - 1) : At(line, i) = char
    THEN SetMax({i \in 0..(Min(to, Len(line)) - 1) : At(line, i) = char})
    ELSE -1

\* Tail of search_char_forward / search_char_backward once idx is known.
search_char_found(w, kind, char, idx) ==
    IF idx # -1
    THEN [w |-> [set_cursor_location(w, <<Row(cursor_location(w)), idx>>)
                    EXCEPT !.last_f_search = <<kind, char>>],
          ok |-> TRUE]
    ELSE [w |-> w, ok |-> FALSE]

search_char_forward_at_cursor(w, char) ==
    search_char_found(w, "f", char,
        find(get_line(w, Row(cursor_location(w))), char,
             Col(cursor_location(w))))

search_char_forward(w, char) ==
    LET col == Col(cursor_location(w))
        line == get_line(w, Row(cursor_location(w)))
    IN  search_char_found(w, "f", char,
            IF col + 1 < Len(line) THEN find(line, char, col + 1) ELSE -1)

search_char_backward(w, char) ==
    LET col == Col(cursor_location(w))
        line == get_line(w, Row(cursor_location(w)))
    IN  search_char_found(w, "F", char,
            IF col > 0 THEN rfind(line, char, col) ELSE -1)

\* Tail of search_till_forward: r is what search_char_forward returned.
search_till_forward_found(w, r, char) ==
    IF r.ok
    THEN IF Col(cursor_location(r.w)) > Col(cursor_location(w))
         THEN [w |-> [action_cursor_left(r.w)
                         EXCEPT !.last_f_search = <<"t", char>>],
               ok |-> TRUE]
         ELSE [w |-> set_cursor_location(r.w, cursor_location(w)), ok |-> FALSE]
    ELSE [w |-> r.w, ok |-> FALSE]

search_till_forward(w, char) ==
    search_till_forward_found(w, search_char_forward(w, char), char)

\* Tail of search_till_backward: r is what search_char_backward returned.
search_till_backward_found(w, r, char) ==
    IF r.ok
    THEN IF Col(cursor_location(r.w)) < Col(cursor_location(w))
         THEN [w |-> [action_cursor_right(r.w)
                         EXCEPT !.last_f_search = <<"T", char>>],
               ok |-> TRUE]
         ELSE [w |-> set_cursor_location(r.w, cursor_location(w)), ok |-> FALSE]
    ELSE [w |-> r.w, ok |-> FALSE]

search_till_backward(w, char) ==
    search_till_backward_found(w, search_char_backward(w, char), char)

\* The search of the given kind.
search_of(w, kind, char) ==
    CASE kind = "f" -> search_char_forward(w, char)
      [] kind = "F" -> search_char_backward(w, char)
      [] kind = "t" -> search_till_forward(w, char)
      [] kind = "T" -> search_till_backward(w, char)
      [] OTHER -> [w |-> w, ok |-> FALSE]

\* The kind that searches the other way.
reversed(kind) ==
    CASE kind = "f" -> "F"
      [] kind = "F" -> "f"
      [] kind = "t" -> "T"
      [] kind = "T" -> "t"
      [] OTHER -> kind

search_repeat_reverse(w) ==
    IF w.last_f_search = NoPos THEN [w |-> w, ok |-> FALSE]
    ELSE search_of(w, reversed(w.last_f_search[1]), w.last_f_search[2])

search_repeat_opposite(w) ==
    IF w.last_f_search = NoPos THEN [w |-> w, ok |-> FALSE]
    ELSE search_of(w, reversed(w.last_f_search[1]), w.last_f_search[2])

search_repeat(w) ==
    IF w.last_f_search = NoPos THEN [w |-> w, ok |-> FALSE]
    ELSE search_of(w, w.last_f_search[1], w.last_f_search[2])

\* Word search (* and #).

\* str.isalnum for one character
IsAlnum(ch) == ch \in WordChars \ {"_"}

\* line.find(word) from column from: the least index >= from where word
\* starts, or -1.
find_word(line, word, from) ==
    IF \E i \in from..(Len(line) - Len(word)) : Slice(line, i, i + Len(word)) = word
    THEN SetMin({i \in from..(Len(line) - Len(word)) :
                    Slice(line, i, i + Len(word)) = word})
    ELSE -1

\* line[:to].rfind(word): the greatest index where word starts and ends at or
\* before column to, or -1.
rfind_word(line, word, to) ==
    IF \E i \in 0..(Min(to, Len(line)) - Len(word)) :
           Slice(line, i, i + Len(word)) = word
    THEN SetMax({i \in 0..(Min(to, Len(line)) - Len(word)) :
                    Slice(line, i, i + Len(word)) = word})
    ELSE -1

\* The rows among from..to whose line holds word.
rows_with_word(w, word, from, to) ==
    {row \in from..to : find_word(get_line(w, row), word, 0) # -1}

\* cursor_location = (row, line.find(word)); return True
found_first_in_row(w, word, row) ==
    [w |-> set_cursor_location(w, <<row, find_word(get_line(w, row), word, 0)>>),
     ok |-> TRUE]

\* cursor_location = (row, line.rfind(word)); return True
found_last_in_row(w, word, row) ==
    [w |-> set_cursor_location(w,
               <<row, rfind_word(get_line(w, row), word, Len(get_line(w, row)))>>),
     ok |-> TRUE]

\* Tail of _search_word_forward once the index on the current line is known.
search_word_forward_from(w, word, start_row, idx) ==
    IF idx # -1
    THEN [w |-> set_cursor_location(w, <<start_row, idx>>), ok |-> TRUE]
    ELSE IF rows_with_word(w, word, start_row + 1, line_count(w) - 1) # {}
    THEN found_first_in_row(w, word,
             SetMin(rows_with_word(w, word, start_row + 1, line_count(w) - 1)))
    ELSE IF rows_with_word(w, word, 0, start_row - 1) # {}
    THEN found_first_in_row(w, word,
             SetMin(rows_with_word(w, word, 0, start_row - 1)))
    ELSE [w |-> w, ok |-> FALSE]

search_word_forward(w, word, start_row, start_col) ==
    search_word_forward_from(w, word, start_row,
        find_word(get_line(w, start_row), word, start_col))

\* Tail of _search_word_backward once the index on the current line is known.
search_word_backward_from(w, word, start_row, idx) ==
    IF idx # -1
    THEN [w |-> set_cursor_location(w, <<start_row, idx>>), ok |-> TRUE]
    ELSE IF rows_with_word(w, word, 0, start_row - 1) # {}
    THEN found_last_in_row(w, word,
             SetMax(rows_with_word(w, word, 0, start_row - 1)))
    ELSE IF rows_with_word(w, word, start_row + 1, line_count(w) - 1) # {}
    THEN found_last_in_row(w, word,
             SetMax(rows_with_word(w, word, start_row + 1, line_count(w) - 1)))
    ELSE [w |-> w, ok |-> FALSE]

search_word_backward(w, word, start_row, start_col) ==
    search_word_backward_from(w, word, start_row,
        rfind_word(get_line(w, start_row), word, start_col))

\* while start > 0 and line[start - 1].isalnum(): start -= 1
alnum_run_start(line, col) ==
    SetMin({s \in 0..col : \A i \in s..(col - 1) : IsAlnum(At(line, i))})

\* while end < len(line) and line[end].isalnum(): end += 1
alnum_run_end(line, col) ==
    SetMax({e \in col..Len(line) : \A i \in col..(e - 1) : IsAlnum(At(line, i))})

\* Tail of search_word_under_cursor once the word's columns are known.
search_word_at(w, forward, row, line, start, end) ==
    IF start = end THEN [w |-> w, ok |-> FALSE]
    ELSE IF forward
    THEN search_word_forward(
             [w EXCEPT !.last_search_word = Slice(line, start, end)],
             Slice(line, start, end), row, end)
    ELSE search_word_backward(
             [w EXCEPT !.last_search_word = Slice(line, start, end)],
             Slice(line, start, end), row, start)

search_word_under_cursor(w, forward) ==
    LET row == Row(cursor_location(w))
        col == Col(cursor_location(w))
        line == get_line(w, row)
    IN  IF col >= Len(line) \/ ~IsAlnum(At(line, col))
        THEN [w |-> w, ok |-> FALSE]
        ELSE search_word_at(w, forward, row, line,
                 alnum_run_start(line, col), alnum_run_end(line, col))

\* -------------------------------------------------------- TextObjectMixin

BRACKET_PAIRS ==
    [b \in {"(", ")", "[", "]", "{", "}", "<", ">"} |->
        CASE b = "(" -> ")"
          [] b = ")" -> "("
          [] b = "[" -> "]"
          [] b = "]" -> "["
          [] b = "{" -> "}"
          [] b = "}" -> "{"
          [] b = "<" -> ">"
          [] b = ">" -> "<"]

\* The double and the single quote; the source's third quote character, the
\* grave accent, is in no text or selector of the model.
QUOTE_CHARS == {"\"", "'"}

\* What get_text_object gives: a range (start, end), None (range NoPos), or
\* an exception that escapes it.
Range(row, a, b) == [range |-> <<<<row, a>>, <<row, b>>>>, raised |-> "None"]

NotFound == [range |-> NoPos, raised |-> "None"]

Raises(exception) == [range |-> NoPos, raised |-> exception]

RECURSIVE word_start(_, _)
\* while start > 0 and line[start - 1].isalnum(): start -= 1
word_start(line, start) ==
    IF start > 0 /\ IsAlnum(At(line, start - 1))
    THEN word_start(line, start - 1)
    ELSE start

RECURSIVE word_end(_, _)
\* while end < len(line) and line[end].isalnum(): end += 1
word_end(line, end) ==
    IF end < Len(line) /\ IsAlnum(At(line, end))
    THEN word_end(line, end + 1)
    ELSE end

RECURSIVE space_end(_, _)
\* while end < len(line) and line[end].isspace(): end += 1
space_end(line, end) ==
    IF end < Len(line) /\ IsSpace(At(line, end))
    THEN space_end(line, end + 1)
    ELSE end

\* Tail of _get_word_object once both ends are known.
word_range(row, start, end) ==
    IF start = end THEN NotFound ELSE Range(row, start, end)

get_word_object(w, inner) ==
    LET row == Row(cursor_location(w))
        col == Col(cursor_location(w))
        line == get_line(w, row)
    IN  IF col >= Len(line) THEN NotFound
        ELSE word_range(row, word_start(line, col),
                        IF inner THEN word_end(line, col)
                        ELSE space_end(line, word_end(line, col)))

RECURSIVE bracket_open_pos(_, _, _, _, _)
\* for i in range(col, -1, -1): the index of the opening bracket, -1 when the
\* loop ends without one (open_pos is None), -2 when line[i] raises
\* IndexError.
bracket_open_pos(line, i, depth, open_char, close_char) ==
    IF i < 0 THEN -1
    ELSE IF i >= Len(line) THEN -2
    ELSE IF At(line, i) = close_char
    THEN bracket_open_pos(line, i - 1, depth + 1, open_char, close_char)
    ELSE IF At(line, i) = open_char
    THEN IF depth = 0 THEN i
         ELSE bracket_open_pos(line, i - 1, depth - 1, open_char, close_char)
    ELSE bracket_open_pos(line, i - 1, depth, open_char, close_char)

RECURSIVE bracket_close_pos(_, _, _, _, _)
\* for i in range(col, len(line)): the index of the closing bracket, -1 when
\* the loop ends without one (close_pos is None).
bracket_close_pos(line, i, depth, open_char, close_char) ==
    IF i >= Len(line) THEN -1
    ELSE IF At(line, i) = open_char
    THEN bracket_close_pos(line, i + 1, depth + 1, open_char, close_char)
    ELSE IF At(line, i) = close_char
    THEN IF depth = 0 THEN i
         ELSE bracket_close_pos(line, i + 1, depth - 1, open_char, close_char)
    ELSE bracket_close_pos(line, i + 1, depth, open_char, close_char)

\* Tail of _get_bracket_object and _get_quote_object once both positions are
\* known.
enclosed_range(row, open_pos, close_pos, inner) ==
    IF open_pos = -2 THEN Raises("IndexError")
    ELSE IF open_pos = -1 \/ close_pos = -1 THEN NotFound
    ELSE IF inner THEN Range(row, open_pos + 1, close_pos)
    ELSE Range(row, open_pos, close_pos + 1)

\* _get_bracket_object with the two brackets determined.
bracket_range(w, open_char, close_char, inner) ==
    LET row == Row(cursor_location(w))
        col == Col(cursor_location(w))
        line == get_line(w, row)
    IN  enclosed_range(row,
            bracket_open_pos(line, col, 0, open_char, close_char),
            bracket_close_pos(line, col, 0, open_char, close_char),
            inner)

get_bracket_object(w, bracket, inner) ==
    IF bracket \in {"(", "[", "{", "<"}
    THEN bracket_range(w, bracket, BRACKET_PAIRS[bracket], inner)
    ELSE bracket_range(w, BRACKET_PAIRS[bracket], bracket, inner)

RECURSIVE quote_open_pos(_, _, _)
\* for i in range(col, -1, -1): the index of the opening quote, -1 when there
\* is none, -2 when line[i] raises IndexError.
quote_open_pos(line, i, quote) ==
    IF i < 0 THEN -1
    ELSE IF i >= Len(line) THEN -2
    ELSE IF At(line, i) = quote /\ ~(i > 0 /\ At(line, i - 1) = "\\")
    THEN i
    ELSE quote_open_pos(line, i - 1, quote)

quote_close_pos_any(line, i, quote) == find(line, quote, i)

RECURSIVE quote_close_pos(_, _, _)
\* for i in range(open_pos + 1, len(line)): the index of the closing quote,
\* -1 when there is none.
quote_close_pos(line, i, quote) ==
    IF i >= Len(line) THEN -1
    ELSE IF At(line, i) = quote /\ At(line, i - 1) # "\\"
    THEN i
    ELSE quote_close_pos(line, i + 1, quote)

\* Tail of _get_quote_object once the opening quote is known.
quote_range(row, line, open_pos, quote, inner) ==
    enclosed_range(row, open_pos,
        IF open_pos < 0 THEN -1 ELSE quote_close_pos(line, open_pos + 1, quote),
        inner)

get_quote_object(w, quote, inner) ==
    LET row == Row(cursor_location(w))
        line == get_line(w, row)
    IN  quote_range(row, line,
            quote_open_pos(line, Col(cursor_location(w)), quote), quote, inner)

get_text_object(w, obj_type, obj_char, inner) ==
    IF obj_type = "w" THEN get_word_object(w, inner)
    ELSE IF obj_char \in DOMAIN BRACKET_PAIRS
    THEN get_bracket_object(w, obj_char, inner)
    ELSE IF obj_char \in QUOTE_CHARS THEN get_quote_object(w, obj_char, inner)
    ELSE NotFound

\* The operations return [w, ok]; when get_text_object raises, the exception
\* escapes them and nothing is returned.
escaped(w, exception) == [w |-> [w EXCEPT !.error = exception], ok |-> "None"]

\* Tail of delete_text_object: r is what get_text_object gave.
delete_text_range(w, r) ==
    IF r.raised # "None" THEN escaped(w, r.raised)
    ELSE IF r.range = NoPos THEN [w |-> w, ok |-> FALSE]
    ELSE IF Row(r.range[1]) = Row(r.range[2])
    THEN [w |-> delete_right_times(
                    set_cursor_location(
                        [w EXCEPT !.yank_register =
                            Slice(get_line(w, Row(r.range[1])),
                                  Col(r.range[1]), Col(r.range[2]))],
                        r.range[1]),
                    Col(r.range[2]) - Col(r.range[1])),
          ok |-> TRUE]
    ELSE [w |-> w, ok |-> FALSE]

delete_text_object(w, obj_type, obj_char, inner) ==
    delete_text_range(w, get_text_object(w, obj_type, obj_char, inner))

\* Tail of change_text_object: r is what delete_text_object returned.
change_after_delete(r) ==
    IF r.w.error # "None" THEN r
    ELSE IF r.ok THEN [w |-> enter_insert_mode(r.w), ok |-> TRUE]
    ELSE [w |-> r.w, ok |-> FALSE]

change_text_object(w, obj_type, obj_char, inner) ==
    change_after_delete(delete_text_object(w, obj_type, obj_char, inner))

\* Tail of yank_text_object: r is what get_text_object gave.
yank_text_range(w, r) ==
    IF r.raised # "None" THEN escaped(w, r.raised)
    ELSE IF r.range = NoPos THEN [w |-> w, ok |-> FALSE]
    ELSE IF Row(r.range[1]) = Row(r.range[2])
    THEN [w |-> [w EXCEPT !.yank_register =
                    Slice(get_line(w, Row(r.range[1])),
                          Col(r.range[1]), Col(r.range[2]))],
          ok |-> TRUE]
    ELSE [w |-> w, ok |-> FALSE]

yank_text_object(w, obj_type, obj_char, inner) ==
    yank_text_range(w, get_text_object(w, obj_type, obj_char, inner))

\* ------------------------------------------------- NavigationMixin: lines

nav_goto_line_zero_indexed(w, line_num) ==
    set_cursor_location(w, <<Max(0, Min(line_num, line_count(w) - 1)), 0>>)

nav_goto_line(w, line_num) ==
    set_cursor_location(w, <<Max(0, Min(line_num - 1, line_count(w) - 1)), 0>>)

\* ------------------------------------------------------------- key events

\* The keys that are pressed: Escape, Enter, count digits, the motions, the
\* operators, the mode changes and edits of the command table, and "(" as a
\* printable key that no table binds.
Keys ==
    {"escape", "enter", "0", "2", "3",
     "h", "j", "k", "l", "w", "b", "e", "dollar", "circumflex", "g", "G",
     "i", "I", "a", "A", "o", "O", "v",
     "x", "X", "d", "D", "c", "C", "y", "p", "P", "r", "J",
     "greater_than", "less_than", "left_parenthesis"}

\* event.key as a string of characters (what r{char} inserts).
key_name(key) ==
    CASE key = "enter" -> <<"e", "n", "t", "e", "r">>
      [] key = "dollar" -> <<"d", "o", "l", "l", "a", "r">>
      [] key = "circumflex" ->
            <<"c", "i", "r", "c", "u", "m", "f", "l", "e", "x">>
      [] key = "greater_than" ->
            <<"g", "r", "e", "a", "t", "e", "r", "_", "t", "h", "a", "n">>
      [] key = "less_than" -> <<"l", "e", "s", "s", "_", "t", "h", "a", "n">>
      [] key = "left_parenthesis" ->
            <<"l", "e", "f", "t", "_", "p", "a", "r", "e", "n", "t", "h", "e",
              "s", "i", "s">>
      [] OTHER -> <<key>>

\* What the host types for a key that no handler consumed: Enter is a newline,
\* a printable key its character.
key_insert(key) ==
    CASE key = "enter" -> <<NL>>
      [] key = "dollar" -> <<"$">>
      [] key = "circumflex" -> <<"^">>
      [] key = "greater_than" -> <<">">>
      [] key = "less_than" -> <<"<">>
      [] key = "left_parenthesis" -> <<"(">>
      [] OTHER -> <<key>>

\* The host's own key handler, reached when on_key did not prevent it: the
\* typed text replaces the selection.
default_key(w, key) ==
    IF key = "escape" THEN w
    ELSE replace_via_keyboard(w, key_insert(key), w.sel_start, w.sel_end)

handle_insert_mode_cleared(w, key) ==
    IF key = "enter"
    THEN prevent_default(post_message(clear(w), Submitted(text_of(clear(w)))))
    ELSE w

handle_insert_mode(w, key) ==
    IF key = "enter"
    THEN prevent_default(post_message(clear(w), Submitted(text_of(w))))
    ELSE w

\* self.operator_pending.clear(); return success
operator_done(r) == [w |-> operator_clear(r.w), ok |-> r.ok]

handle_operator_motion(w, key) ==
    IF key = w.operator
    THEN operator_done(execute_line_operator(w, w.operator, get_total_count(w)))
    ELSE IF key \in MotionKeys
    THEN operator_done(
             execute_operator_motion(w, w.operator, key, get_total_count(w)))
    ELSE IF key = "escape"
    THEN [w |-> operator_clear(w), ok |-> TRUE]
    ELSE [w |-> w, ok |-> FALSE]

\* EditingMixin.edit_indent / edit_dedent call action_indent / action_dedent,
\* which the host TextArea does not define: the call raises AttributeError.
edit_indent(w) == [w EXCEPT !.error = "AttributeError"]

edit_dedent(w) == [w EXCEPT !.error = "AttributeError"]

\* The if/elif chain of _handle_pending_command.
pending_table(w, key) ==
    CASE w.pending_command = "d" /\ key = "d" -> edit_delete_line(w)
      [] w.pending_command = "d" /\ key = "w" -> edit_delete_word(w)
      [] w.pending_command = "y" /\ key = "y" -> edit_yank_line(w)
      [] w.pending_command = "c" /\ key = "c" -> edit_change_line(w)
      [] w.pending_command = "c" /\ key = "w" -> edit_change_word(w)
      [] w.pending_command = "g" /\ key = "g" -> nav_document_start(w)
      [] w.pending_command = ">" /\ key = "greater_than" -> edit_indent(w)
      [] w.pending_command = "<" /\ key = "less_than" -> edit_dedent(w)
      [] w.pending_command = "r" -> edit_replace_char(w, key_name(key))
      [] w.pending_command = "f" -> search_char_forward(w, key).w
      [] w.pending_command = "F" -> search_char_backward(w, key).w
      [] w.pending_command = "t" -> search_till_forward(w, key).w
      [] w.pending_command = "T" -> search_till_backward(w, key).w
      [] OTHER -> w

\* The end of a handler branch: event.prevent_default(), which a statement
\* that raised before it does not reach.
prevent_unless_raised(w) == IF w.error # "None" THEN w ELSE prevent_default(w)

\* self.pending_command = None, after the chain unless it raised.
pending_done(w) ==
    IF w.error # "None" THEN w ELSE [w EXCEPT !.pending_command = "None"]

handle_pending_command(w, key) == pending_done(pending_table(w, key))

\* The if/elif chain of _handle_command_mode after the pending states.
command_table(w, key) ==
    CASE key \in {"h", "j", "k", "l", "w", "b", "e"} ->
            prevent_default(count_clear(repeat_motion(w, key, get_count(w, 1))))
      [] key = "0" -> prevent_default(nav_line_start(w))
      [] key = "dollar" -> prevent_default(nav_line_end(w))
      [] key = "circumflex" -> prevent_default(nav_first_non_whitespace(w))
      [] key = "g" -> prevent_default([w EXCEPT !.pending_command = "g"])
      [] key = "G" -> prevent_default(nav_document_end(w))
      [] key = "i" -> prevent_default(enter_insert_mode(w))
      [] key = "I" -> prevent_default(enter_insert_mode(nav_line_start(w)))
      [] key = "a" -> prevent_default(enter_insert_mode(nav_right(w)))
      [] key = "A" -> prevent_default(enter_insert_mode(nav_line_end(w)))
      [] key = "o" -> prevent_default(enter_insert_mode(edit_open_line_below(w)))
      [] key = "O" -> prevent_default(enter_insert_mode(edit_open_line_above(w)))
      [] key = "v" -> prevent_default(enter_visual_mode(w))
      [] key = "x" -> prevent_default(edit_delete_char(w))
      [] key = "X" -> prevent_default(edit_delete_char_back(w))
      [] key \in {"d", "c", "y"} ->
            prevent_default(count_clear(set_operator(w, key, get_count(w, 0))))
      [] key = "D" -> prevent_default(edit_delete_to_line_end(w))
      [] key = "C" -> prevent_default(enter_insert_mode(edit_delete_to_line_end(w)))
      [] key = "p" -> prevent_default(edit_paste_after(w))
      [] key = "P" -> prevent_default(edit_paste_before(w))
      [] key = "r" -> prevent_default([w EXCEPT !.pending_command = "r"])
      [] key = "J" -> prevent_default(edit_join_lines(w))
      [] key = "greater_than" -> prevent_default([w EXCEPT !.pending_command = ">"])
      [] key = "less_than" -> prevent_default([w EXCEPT !.pending_command = "<"])
      [] key \in {"f", "F", "t", "T"} ->
            prevent_default([w EXCEPT !.pending_command = key])
      [] key = "semicolon" -> prevent_default(search_repeat(w).w)
      [] key = "comma" -> prevent_default(search_repeat_reverse(w).w)
      [] key = "asterisk" -> prevent_default(search_word_under_cursor(w, TRUE).w)
      [] key = "numbersign" -> prevent_default(search_word_under_cursor(w, FALSE).w)
      [] OTHER -> w

\* _handle_command_mode after its operator-pending block returned r.
after_operator_motion(r, key) ==
    IF r.ok THEN prevent_default(r.w)
    ELSE IF r.w.pending_command # "None"
    THEN prevent_unless_raised(handle_pending_command(r.w, key))
    ELSE command_table(r.w, key)

handle_command_mode(w, key) ==
    IF key \in DigitKeys
    THEN prevent_default(
             IF is_pending(w)
             THEN set_motion_count(w, w.motion_count * 10 + DigitVal(key))
             ELSE add_digit(w, key))
    ELSE after_operator_motion(
             IF is_pending(w) THEN handle_operator_motion(w, key)
             ELSE [w |-> w, ok |-> FALSE],
             key)

handle_visual_mode(w, key) ==
    CASE key = "h" -> prevent_default(visual_left(w))
      [] key = "j" -> prevent_default(visual_down(w))
      [] key = "k" -> prevent_default(visual_up(w))
      [] key = "l" -> prevent_default(visual_right(w))
      [] key = "w" -> prevent_default(visual_word_forward(w))
      [] key = "b" -> prevent_default(visual_word_backward(w))
      [] key = "0" -> prevent_default(visual_line_start(w))
      [] key = "dollar" -> prevent_default(visual_line_end(w))
      [] key = "y" -> prevent_default(enter_command_mode(visual_yank(w)))
      [] key \in {"d", "x"} -> prevent_default(enter_command_mode(visual_delete(w)))
      [] key = "c" -> prevent_default(visual_change(w))
      [] key = "greater_than" -> prevent_default(visual_indent(w))
      [] key = "less_than" -> prevent_unless_raised(visual_dedent(w))
      [] key = "tilde" -> prevent_unless_raised(visual_toggle_case(w))
      [] key = "u" -> prevent_unless_raised(visual_lowercase(w))
      [] key = "U" -> prevent_unless_raised(visual_uppercase(w))
      [] OTHER -> w

on_key(w, key) ==
    IF key = "escape" THEN prevent_default(enter_command_mode(w))
    ELSE IF w.vim_mode = "INSERT" THEN handle_insert_mode(w, key)
    ELSE IF w.vim_mode = "COMMAND" THEN handle_command_mode(w, key)
    ELSE IF w.vim_mode = "VISUAL" THEN handle_visual_mode(w, key)
    ELSE w

\* The host's handler runs unless on_key prevented it (or raised).
after_on_key(w, key) ==
    IF w.prevented \/ w.error # "None" THEN w ELSE default_key(w, key)

\* One key event: the widget's on_key, then the host's handler.
key_event(w, key) ==
    after_on_key(on_key([w EXCEPT !.prevented = FALSE, !.posted = <<>>], key), key)

\* ---------------------------------------------------------- specification

VARIABLES
    lines,              \* the document: a sequence of lines
    sel_start,          \* TextArea.selection.start
    sel_end,            \* TextArea.selection.end, the cursor location
    vim_mode,           \* "INSERT", "COMMAND" or "VISUAL"
    visual_start,       \* position where Visual mode was entered, or NoPos
    pending_command,    \* first key of a two-key command, or "None"
    count,              \* CountHandler.count
    count_str,          \* CountHandler.count_str, a sequence of digit keys
    yank_register,      \* the register, a sequence of characters
    operator,           \* OperatorPendingState.operator, or "None"
    op_count,           \* OperatorPendingState.count
    motion_count,       \* OperatorPendingState.motion_count
    text_object_state,  \* always "None": nothing assigns anything else
    prevented,          \* the last key event's default was prevented
    error,              \* exception that escaped a handler, or "None"
    last_f_search,      \* <<kind, char>> of the last f/F/t/T search, or NoPos
    last_search_word,   \* the word of the last * or # search, or NoPos
    posted,             \* messages posted during the last key event or call
    notified_mode,      \* mode carried by the last ModeChanged message
    key,                \* the last key event, "None" before the first
    nkeys,              \* number of key events (or calls) handled
    call,               \* the last direct call of a method, <<>> when none
    result,             \* what that call returned, "None" when it returned None
    start,              \* history: <<lines, cursor>> a recorded run started from
    trace               \* history: the keys of a recorded run

vars ==
    <<lines, sel_start, sel_end, vim_mode, visual_start, pending_command, count,
      count_str, yank_register, operator, op_count, motion_count,
      text_object_state, prevented, error, last_f_search, last_search_word,
      posted, notified_mode, key, nkeys, call, result, start, trace>>

\* The widget as one record.
W ==
    [lines |-> lines, sel_start |-> sel_start, sel_end |-> sel_end,
     vim_mode |-> vim_mode, visual_start |-> visual_start,
     pending_command |-> pending_command, count |-> count,
     count_str |-> count_str, yank_register |-> yank_register,
     operator |-> operator, op_count |-> op_count,
     motion_count |-> motion_count, text_object_state |-> text_object_state,
     prevented |-> prevented, error |-> error,
     last_f_search |-> last_f_search,
     last_search_word |-> last_search_word, posted |-> posted,
     notified_mode |-> notified_mode]

HelloWorld == << <<"h", "e", "l", "l", "o", " ", "w", "o", "r", "l", "d">> >>

Parens == << <<"(", "a", ",", "b", ")">> >>

ThreeLines ==
    << <<"l", "i", "n", "e", "1">>, <<"l", "i", "n", "e", "2">>,
       <<"l", "i", "n", "e", "3">> >>

Mixed == << <<"a", "b", " ", "c">>, <<>>, <<" ", "x">> >>

Empty == << <<>> >>

Repeated == << <<"a", "b", " ", "a", "b">> >>

\* The documents loaded into the widget before the first key.
InitLines == {HelloWorld, Parens, ThreeLines, Mixed}

Positions(ls) ==
    {<<r, c>> : r \in 0..(Len(ls) - 1), c \in 0..MaxChars} \cap
    {p \in (0..(Len(ls) - 1)) \X (0..MaxChars) : Col(p) <= Len(ls[Row(p) + 1])}

\* The widget's own state after __init__, whatever text it holds.
Fresh ==
    /\ sel_start = sel_end
    /\ visual_start = NoPos
    /\ pending_command = "None"
    /\ count = 0
    /\ count_str = <<>>
    /\ yank_register = <<>>
    /\ operator = "None"
    /\ op_count = 0
    /\ motion_count = 0
    /\ text_object_state = "None"
    /\ prevented = FALSE
    /\ error = "None"
    /\ last_f_search = NoPos
    /\ last_search_word = NoPos
    /\ posted = <<>>
    /\ notified_mode = vim_mode
    /\ key = "None"
    /\ nkeys = 0
    /\ call = <<>>
    /\ result = "None"

\* VimTextArea.__init__ leaves an empty document in INSERT mode; or the host
\* has loaded a document, placed the cursor and the mode is COMMAND (what an
\* Escape makes of the constructed widget).  No history is recorded.
Init ==
    /\ \/ lines = Empty /\ vim_mode = "INSERT"
       \/ lines \in InitLines /\ vim_mode = "COMMAND"
    /\ sel_end \in Positions(lines)
    /\ Fresh
    /\ start = <<>>
    /\ trace = <<>>

\* The widget becomes w.
Becomes(w) ==
    /\ lines' = w.lines
    /\ sel_start' = w.sel_start
    /\ sel_end' = w.sel_end
    /\ vim_mode' = w.vim_mode
    /\ visual_start' = w.visual_start
    /\ pending_command' = w.pending_command
    /\ count' = w.count
    /\ count_str' = w.count_str
    /\ yank_register' = w.yank_register
    /\ operator' = w.operator
    /\ op_count' = w.op_count
    /\ motion_count' = w.motion_count
    /\ text_object_state' = w.text_object_state
    /\ prevented' = w.prevented
    /\ error' = w.error
    /\ last_f_search' = w.last_f_search
    /\ last_search_word' = w.last_search_word
    /\ posted' = w.posted
    /\ notified_mode' = w.notified_mode

\* Key event k, when the program is still running, fewer than max key events
\* were handled and the document stays within its bound.
KeyStep(k, max) ==
    /\ error = "None"
    /\ nkeys < max
    /\ \E w \in {key_event(W, k)} :
        /\ TotalChars(w.lines) <= MaxChars
        /\ Becomes(w)
    /\ key' = k
    /\ nkeys' = nkeys + 1
    /\ call' = <<>>
    /\ result' = "None"

\* A key event of a run whose history is not recorded.
Handle(k, max) == KeyStep(k, max) /\ UNCHANGED <<start, trace>>

\* A key event of a recorded run.
Logged(k, max) == KeyStep(k, max) /\ trace' = Append(trace, k) /\ UNCHANGED start

\* on_key, first branch: Escape in any mode.
Escape == Handle("escape", MaxKeys)

\* on_key -> _handle_insert_mode
InsertKey ==
    \E k \in Keys \ {"escape"} : vim_mode = "INSERT" /\ Handle(k, MaxKeys)

\* on_key -> _handle_command_mode
CommandKey ==
    \E k \in Keys \ {"escape"} : vim_mode = "COMMAND" /\ Handle(k, MaxKeys)

\* on_key -> _handle_visual_mode
VisualKey ==
    \E k \in Keys \ {"escape"} : vim_mode = "VISUAL" /\ Handle(k, MaxKeys)

Next == Escape \/ InsertKey \/ CommandKey \/ VisualKey

Spec == Init /\ [][Next]_vars

\* ------------------------------------------- counts: a second key alphabet

\* Longer key sequences over the keys of a counted operator: count digits, the
\* operator d, the motion l, and v / Escape to go through Visual mode.
MaxCountKeys == 5

CountKeys == {"0", "2", "3", "d", "l", "v", "escape"}

InitCount ==
    /\ Init
    /\ vim_mode = "COMMAND"
    /\ lines \in {HelloWorld, Mixed}

CountKey == \E k \in CountKeys : Handle(k, MaxCountKeys)

NextCount == CountKey

SpecCount == InitCount /\ [][NextCount]_vars

\* ----------------------------------- operators: a third key alphabet

\* Key sequences over the operators d, c, y, the count digit 2 and the
\* motion keys other than 0.
MaxOperatorKeys == 4

OperatorRunKeys ==
    {"d", "c", "y", "2", "h", "j", "k", "l", "w", "b", "e", "dollar",
     "circumflex"}

InitOperator ==
    /\ Init
    /\ vim_mode = "COMMAND"
    /\ lines \in {HelloWorld, ThreeLines}

OperatorRunKey == \E k \in OperatorRunKeys : Handle(k, MaxOperatorKeys)

NextOperator == OperatorRunKey

SpecOperator == InitOperator /\ [][NextOperator]_vars

\* ------------------------------------ the register: a fourth key alphabet

\* Key sequences over a yank (y with l or y), navigation, search, mode, paste,
\* case and indent keys.
MaxRegisterKeys == 4

RegisterRunKeys ==
    {"y", "l", "j", "f", "semicolon", "asterisk", "v", "i", "escape", "p",
     "tilde", "U", "u", "greater_than", "less_than"}

InitRegister ==
    /\ lines \in {Repeated, Mixed}
    /\ vim_mode = "COMMAND"
    /\ sel_end \in Positions(lines)
    /\ Fresh
    /\ start = <<>>
    /\ trace = <<>>

RegisterRunKey == \E k \in RegisterRunKeys : Handle(k, MaxRegisterKeys)

NextRegister == RegisterRunKey

SpecRegister == InitRegister /\ [][NextRegister]_vars

\* ------------------------------------- Visual mode: a recorded key alphabet

\* Runs through Visual mode whose start and keys are recorded: v, the visual
\* motions h, l, j, the visual operations y, d, x, c, and Escape.
MaxVisualKeys == 4

Hello == << <<"h", "e", "l", "l", "o">> >>

VisualRunKeys == {"v", "h", "l", "j", "y", "d", "x", "c", "escape"}

InitVisual ==
    /\ lines \in {Hello, Mixed}
    /\ vim_mode = "COMMAND"
    /\ sel_end \in Positions(lines)
    /\ Fresh
    /\ start = <<lines, sel_end>>
    /\ trace = <<>>

VisualRunKey == \E k \in VisualRunKeys : Logged(k, MaxVisualKeys)

NextVisual == VisualRunKey

SpecVisual == InitVisual /\ [][NextVisual]_vars

\* ------------------------------------ whole lines: a recorded key alphabet

\* Recorded runs over the keys of the linewise commands: d and y (dd, yy),
\* the pastes p and P, and j to change the line.
MaxLineKeys == 5

LineRunKeys == {"d", "y", "p", "P", "j"}

InitLineRun ==
    /\ lines \in {Hello, ThreeLines, Mixed}
    /\ vim_mode = "COMMAND"
    /\ sel_end \in Positions(lines)
    /\ Fresh
    /\ start = <<lines, sel_end>>
    /\ trace = <<>>

LineRunKey == \E k \in LineRunKeys : Logged(k, MaxLineKeys)

NextLines == LineRunKey

SpecLines == InitLineRun /\ [][NextLines]_vars

\* ------------------------------------------- direct calls of the methods

\* The host calls the search and navigation methods directly, as the tests
\* do: the character searches with a character, their repeats, and
\* nav_goto_line with a line number up to GotoSlack outside 1..line_count.
MaxCalls == 3

GotoSlack == 2

SearchChars == {"l", "o", "2", "x"}

InitCalls ==
    /\ lines \in {HelloWorld, ThreeLines}
    /\ vim_mode = "COMMAND"
    /\ sel_end \in Positions(lines)
    /\ Fresh
    /\ start = <<>>
    /\ trace = <<>>

\* A method called with args has returned r = [w, ok].
Returned(name, args, r) ==
    /\ Becomes([r.w EXCEPT !.posted = <<>>])
    /\ result' = r.ok
    /\ call' = <<name>> \o args
    /\ key' = "None"
    /\ nkeys' = nkeys + 1
    /\ UNCHANGED <<start, trace>>

\* A call is made while the program runs and fewer than max calls were made.
Callable(max) == error = "None" /\ nkeys < max

SearchCharForward ==
    \E c \in SearchChars :
        /\ Callable(MaxCalls)
        /\ Returned("search_char_forward", <<c>>, search_char_forward(W, c))

SearchCharBackward ==
    \E c \in SearchChars :
        /\ Callable(MaxCalls)
        /\ Returned("search_char_backward", <<c>>, search_char_backward(W, c))

SearchTillForward ==
    \E c \in SearchChars :
        /\ Callable(MaxCalls)
        /\ Returned("search_till_forward", <<c>>, search_till_forward(W, c))

SearchTillBackward ==
    \E c \in SearchChars :
        /\ Callable(MaxCalls)
        /\ Returned("search_till_backward", <<c>>, search_till_backward(W, c))

SearchRepeat ==
    /\ Callable(MaxCalls)
    /\ Returned("search_repeat", <<>>, search_repeat(W))

SearchRepeatReverse ==
    /\ Callable(MaxCalls)
    /\ Returned("search_repeat_reverse", <<>>, search_repeat_reverse(W))

GotoLine ==
    \E n \in (0 - GotoSlack)..(Len(lines) + GotoSlack) :
        /\ Callable(MaxCalls)
        /\ Returned("nav_goto_line", <<n>>,
                    [w |-> nav_goto_line(W, n), ok |-> "None"])

NextCalls ==
    \/ SearchCharForward
    \/ SearchCharBackward
    \/ SearchTillForward
    \/ SearchTillBackward
    \/ SearchRepeat
    \/ SearchRepeatReverse
    \/ GotoLine

SpecCalls == InitCalls /\ [][NextCalls]_vars

\* --------------------------------------------- direct calls: text objects

\* The host calls the text-object methods directly with an object selector
\* (obj_type, obj_char) and inner / around.
MaxObjectCalls == 2

Quoted == << <<"\"", "a", "\\", "\"", "\"">> >>

Nested == << <<"(", "(", "a", ")", ")">> >>

TwoQuoted == << <<"\"", "a", "\"", " ", "\"", "b", "\"">> >>

Selectors ==
    {<<"w", "">>, <<"(", "(">>, <<")", ")">>, <<"\"", "\"">>, <<"z", "z">>}

InitObjects ==
    /\ lines \in {Parens, Nested, Mixed, Quoted, TwoQuoted}
    /\ vim_mode = "COMMAND"
    /\ sel_end \in Positions(lines)
    /\ Fresh
    /\ start = <<>>
    /\ trace = <<>>

\* get_text_object has given r: the widget is as it was, but for an
\* exception that escaped.
Resolved(name, args, r) ==
    Returned(name, args,
             IF r.raised # "None" THEN escaped(W, r.raised)
             ELSE [w |-> W, ok |-> r.range])

GetTextObject ==
    \E s \in Selectors, inner \in BOOLEAN :
        /\ Callable(MaxObjectCalls)
        /\ Resolved("get_text_object", <<s[1], s[2], inner>>,
                    get_text_object(W, s[1], s[2], inner))

DeleteTextObject ==
    \E s \in Selectors, inner \in BOOLEAN :
        /\ Callable(MaxObjectCalls)
        /\ Returned("delete_text_object", <<s[1], s[2], inner>>,
                    delete_text_object(W, s[1], s[2], inner))

ChangeTextObject ==
    \E s \in Selectors, inner \in BOOLEAN :
        /\ Callable(MaxObjectCalls)
        /\ Returned("change_text_object", <<s[1], s[2], inner>>,
                    change_text_object(W, s[1], s[2], inner))

YankTextObject ==
    \E s \in Selectors, inner \in BOOLEAN :
        /\ Callable(MaxObjectCalls)
        /\ Returned("yank_text_object", <<s[1], s[2], inner>>,
                    yank_text_object(W, s[1], s[2], inner))

NextObjects ==
    \/ GetTextObject
    \/ DeleteTextObject
    \/ ChangeTextObject
    \/ YankTextObject

SpecObjects == InitObjects /\ [][NextObjects]_vars

\* Direct calls of the word search: up to MaxWordCalls calls of
\* search_word_under_cursor, forward and backward, from every cursor position
\* of texts in which words repeat on one line and across lines.
MaxWordCalls == 3

WordRows ==
    << <<"a", "b", " ", "c">>, <<"c", " ", "a", "b", " ", "a", "b">>,
       <<"x", "1">> >>

Contained == << <<"a", " ", "a", "b", " ", "a">> >>

InitWords ==
    /\ lines \in {Repeated, Contained, WordRows, ThreeLines}
    /\ vim_mode = "COMMAND"
    /\ sel_end \in Positions(lines)
    /\ Fresh
    /\ start = <<>>
    /\ trace = <<>>

SearchWordForward ==
    /\ Callable(MaxWordCalls)
    /\ Returned("search_word_under_cursor", <<TRUE>>,
                search_word_under_cursor(W, TRUE))

SearchWordBackward ==
    /\ Callable(MaxWordCalls)
    /\ Returned("search_word_under_cursor", <<FALSE>>,
                search_word_under_cursor(W, FALSE))

NextWords ==
    \/ SearchWordForward
    \/ SearchWordBackward

SpecWords == InitWords /\ [][NextWords]_vars

\* ------------------------------------------------------------------ claims


\* Everything pending is cleared.
NothingPending ==
    /\ operator = "None" /\ op_count = 0 /\ motion_count = 0
    /\ pending_command = "None"
    /\ count = 0 /\ count_str = <<>>
    /\ visual_start = NoPos

\* C1: whenever a key event enters Command mode (Escape in any mode and any
\* pending state, or y / d / x in Visual mode), the resulting state has mode
\* COMMAND and nothing pending: no operator (base and motion count 0), no
\* pending command, an empty count and no visual anchor.
C1_EnterCommandClearsAll ==
    [][(key' = "escape" \/ (vim_mode = "VISUAL" /\ key' \in {"y", "d", "x"}))
       => (vim_mode' = "COMMAND" /\ NothingPending')]_vars

\* C2: after Escape the mode is COMMAND and a following j is plain navigation:
\* the cursor goes where the host's cursor-down puts it (one row down), and
\* the text and the register do not change.
C2_EscapeThenJIsNavigation ==
    [][(key = "escape" /\ key' = "j")
       => /\ vim_mode = "COMMAND"
          /\ vim_mode' = "COMMAND"
          /\ lines' = lines
          /\ yank_register' = yank_register
          /\ sel_end' = get_cursor_down_location(W)]_vars

\* C3: a pending operator and a pending command are never active together.
C3_OnePendingAtATime == ~(operator # "None" /\ pending_command # "None")

\* The keys an operator-pending state resolves: the operator's own letter, a
\* motion, a text-object prefix, a digit, Escape.
ResolvingKeys(op) == {op} \cup MotionKeys \cup {"i", "a"} \cup DigitKeys \cup {"escape"}

\* C4: while an operator is pending in Command mode, any key that is not its
\* own letter, a motion, i / a, a digit or Escape is swallowed: text, cursor,
\* register and mode stay as they are.
C4_OtherKeysSwallowed ==
    [][(vim_mode = "COMMAND" /\ operator # "None"
        /\ key' \notin ResolvingKeys(operator))
       => /\ lines' = lines
          /\ sel_end' = sel_end
          /\ yank_register' = yank_register
          /\ vim_mode' = vim_mode]_vars

\* The claimed repeat count of base count b and motion count m.
ClaimedTotal(b, m) ==
    IF b # 0 /\ m # 0 THEN b * m ELSE IF b # 0 THEN b ELSE IF m # 0 THEN m ELSE 1

\* The line without its n characters from column c on.
WithoutChars(line, c, n) == Slice(line, 0, c) \o Slice(line, c + n, Len(line))

OperatorKeys == {"d", "c", "y", "greater_than", "less_than"}

OperatorOf(k) ==
    CASE k = "greater_than" -> ">" [] k = "less_than" -> "<" [] OTHER -> k

\* C6: an operator key (d, c, y, >, <) pressed in Command mode with nothing
\* pending makes that operator pending with the accumulated count as its base
\* count, and leaves the count empty.
C6_OperatorKeyEntersPending ==
    [][(vim_mode = "COMMAND" /\ operator = "None" /\ pending_command = "None"
        /\ key' \in OperatorKeys)
       => /\ operator' = OperatorOf(key')
          /\ op_count' = count
          /\ count' = 0
          /\ count_str' = <<>>]_vars

\* C7: 0 pressed in Command mode with no count digits accumulated is the
\* line-start command: standalone the cursor goes to column 0 of its row; with
\* an operator pending and no motion count the operator is applied up to
\* column 0 and is no longer pending.
C7_ZeroIsLineStart ==
    [][(vim_mode = "COMMAND" /\ key' = "0" /\ count_str = <<>>
        /\ pending_command = "None" /\ motion_count = 0)
       => /\ operator = "None" => sel_end' = <<Row(sel_end), 0>>
          /\ operator # "None" => operator' = "None"]_vars

\* The word that starts at column c of the line: its maximal run of word
\* characters from c on.
WordAt(line, c) ==
    Slice(line, c,
          SetMin({j \in c..Len(line) : j = Len(line) \/ ~IsWord(At(line, j))}))

AtWordStart(line, c) ==
    /\ c < Len(line) /\ IsWord(At(line, c))
    /\ c = 0 \/ ~IsWord(At(line, c - 1))

\* C8: d then e with the cursor on the first character of a word (of two or
\* more characters) deletes the word through its last character and stores
\* exactly the word: "hello world" at (0, 0) becomes " world", register
\* "hello".
C8_DeleteToWordEnd ==
    [][(vim_mode = "COMMAND" /\ operator = "d" /\ op_count = 0
        /\ motion_count = 0 /\ pending_command = "None" /\ key' = "e"
        /\ sel_start = sel_end
        /\ AtWordStart(lines[Row(sel_end) + 1], Col(sel_end))
        /\ Len(WordAt(lines[Row(sel_end) + 1], Col(sel_end))) >= 2)
       => /\ yank_register' = WordAt(lines[Row(sel_end) + 1], Col(sel_end))
          /\ lines' = [lines EXCEPT ![Row(sel_end) + 1] =
                          WithoutChars(@, Col(sel_end),
                              Len(WordAt(lines[Row(sel_end) + 1], Col(sel_end))))]
      ]_vars

\* C9: with d pending, i followed by the selector ( is a text object and d is
\* applied to it: on "(a,b)" with the cursor on a, after d, i, ( the buffer is
\* "()", the register "a,b", the mode COMMAND and no operator is pending.
C9_DeleteInnerParens ==
    [][(lines = Parens /\ sel_end = <<0, 1>> /\ operator = "d" /\ key = "i"
        /\ key' = "left_parenthesis")
       => /\ lines' = << <<"(", ")">> >>
          /\ yank_register' = <<"a", ",", "b">>
          /\ vim_mode' = "COMMAND"
          /\ operator' = "None"]_vars

\* The document without its rows r .. r + n - 1 (0-indexed, clamped at the
\* last row); a document that loses every row is one empty line.
WithoutRows(ls, r, n) ==
    LET rest == SubSeq(ls, 1, r) \o SubSeq(ls, Min(r + n, Len(ls)) + 1, Len(ls))
    IN  IF rest = <<>> THEN << <<>> >> ELSE rest

\* C10: dd with total count N on row r of an L-line buffer removes exactly
\* rows r .. min(r + N - 1, L - 1) and nothing else: 3 d d at (1, 0) in
\* line1 / line2 / line3 leaves exactly "line1".
C10_DeleteLinesClamped ==
    [][(vim_mode = "COMMAND" /\ operator = "d" /\ key' = "d"
        /\ sel_start = sel_end)
       => lines' = WithoutRows(lines, Row(sel_end),
                               ClaimedTotal(op_count, motion_count))]_vars

\* The messages of one kind among those posted by the last key event.
PostedOf(msgs, kind) == {msgs[i] : i \in {j \in DOMAIN msgs : msgs[j][1] = kind}}

\* C19: a Submitted message is posted by a key event exactly when the key is
\* Enter and the mode is INSERT; it carries the whole text the buffer held
\* before the key, the buffer is empty afterwards and the mode is still
\* INSERT.
C19_SubmittedOnlyOnInsertEnter ==
    [][/\ PostedOf(posted', "Submitted") # {} =>
            /\ key' = "enter"
            /\ vim_mode = "INSERT"
            /\ PostedOf(posted', "Submitted") = {Submitted(JoinLines(lines))}
            /\ lines' = Empty
            /\ vim_mode' = "INSERT"
       /\ (key' = "enter" /\ vim_mode = "INSERT" /\ nkeys' # nkeys)
            => PostedOf(posted', "Submitted") # {}]_vars

\* C19 witness: Enter in INSERT mode has submitted a non-empty text.
C19_Witness ==
    /\ key = "enter"
    /\ vim_mode = "INSERT"
    /\ lines = Empty
    /\ \E m \in PostedOf(posted, "Submitted") : Len(m[2]) > 0

\* C20: a key event that changes the mode posts ModeChanged, the last such
\* message carries the new mode, and after every key event the mode of the
\* last ModeChanged message ever posted is the current mode.
C20_ModeChangeNotified ==
    [][/\ vim_mode' # vim_mode =>
            /\ ModeChanged(vim_mode') \in PostedOf(posted', "ModeChanged")
            /\ \A i \in DOMAIN posted' :
                 (posted'[i][1] = "ModeChanged"
                  /\ \A j \in DOMAIN posted' :
                        j > i => posted'[j][1] # "ModeChanged")
                 => posted'[i] = ModeChanged(vim_mode')
       /\ PostedOf(posted', "ModeChanged") = {} => notified_mode' = notified_mode
       /\ notified_mode' = vim_mode']_vars

\* C20 witness: v has changed the mode to VISUAL and posted ModeChanged.
C20_Witness ==
    /\ key = "v"
    /\ vim_mode = "VISUAL"
    /\ posted = <<ModeChanged("VISUAL")>>

\* The keys _handle_command_mode has a branch for (count digits included),
\* and those _handle_visual_mode has a branch for.
CommandTableKeys ==
    DigitKeys \cup
    {"h", "j", "k", "l", "w", "b", "e", "0", "dollar", "circumflex", "g", "G",
     "ctrl+d", "ctrl+u", "braceleft", "braceright", "i", "I", "a", "A", "o",
     "O", "v", "x", "X", "d", "D", "c", "C", "y", "p", "P", "r", "J",
     "greater_than", "less_than", "u", "ctrl+r", "f", "F", "t", "T",
     "semicolon", "comma", "asterisk", "numbersign"}

VisualTableKeys ==
    {"h", "j", "k", "l", "w", "b", "0", "dollar", "y", "d", "x", "c",
     "greater_than", "less_than", "tilde", "u", "U"}

\* C14: in COMMAND mode (nothing pending) and in VISUAL mode a key outside
\* the mode's table is consumed and changes nothing: text, cursor and
\* selection, register, mode and pending state stay as they were.
C14_UnknownKeyIsNoOp ==
    [][(/\ nkeys' # nkeys
        /\ key' # "escape"
        /\ \/ /\ vim_mode = "COMMAND"
              /\ key' \notin CommandTableKeys
              /\ operator = "None"
              /\ pending_command = "None"
           \/ /\ vim_mode = "VISUAL"
              /\ key' \notin VisualTableKeys)
       => /\ prevented'
          /\ UNCHANGED <<lines, sel_start, sel_end, yank_register, vim_mode,
                         visual_start, pending_command, count, count_str,
                         operator, op_count, motion_count,
                         text_object_state>>]_vars

\* The key k pressed n times.
Times(k, n) == [i \in 1..n |-> k]

\* C12: from position P of a line, v, then l pressed n times with the cursor
\* staying on a character of the line, then y, leaves in the register the
\* n + 1 characters of the line that start at P.
C12_VisualYankInclusive ==
    \A n \in 0..(MaxVisualKeys - 2) :
        (/\ start # <<>>
         /\ trace = <<"v">> \o Times("l", n) \o <<"y">>
         /\ Col(start[2]) + n + 1 <= Len(start[1][Row(start[2]) + 1]))
        => yank_register =
               Slice(start[1][Row(start[2]) + 1],
                     Col(start[2]), Col(start[2]) + n + 1)

\* The text of ls without the range from a to b.
WithoutRange(ls, a, b) ==
    get_text_range(ls, <<0, 0>>, PosMin(a, b))
    \o get_text_range(ls, PosMax(a, b), <<Len(ls) - 1, Len(ls[Len(ls)])>>)

\* C15: in VISUAL mode with a non-empty selection S, y stores S, leaves the
\* text unchanged and ends in COMMAND mode; d and x store S, remove exactly S
\* and end in COMMAND mode; c stores S, removes exactly S and ends in INSERT
\* mode.
C15_VisualOperations ==
    [][(/\ nkeys' # nkeys
        /\ vim_mode = "VISUAL"
        /\ sel_start # sel_end
        /\ key' \in {"y", "d", "x", "c"})
       => /\ yank_register' = get_text_range(lines, sel_start, sel_end)
          /\ key' = "y" => lines' = lines
          /\ key' # "y" =>
                JoinLines(lines') = WithoutRange(lines, sel_start, sel_end)
          /\ vim_mode' = IF key' = "c" THEN "INSERT" ELSE "COMMAND"]_vars

\* C15 witness: v j c has removed a selection that spans two rows and has
\* left the widget in INSERT mode.
C15_Witness ==
    /\ trace = <<"v", "j", "c">>
    /\ vim_mode = "INSERT"
    /\ Len(yank_register) > 1
    /\ Len(lines) < Len(start[1])

\* The line a recorded run started on.
StartLine == start[1][Row(start[2]) + 1]

\* C11 as claimed: after d, d, y, y, p the line that dd removed is a row of
\* the buffer again, on the cursor's row or on a row next to it.
C11_DeleteYankPasteRestores ==
    trace = <<"d", "d", "y", "y", "p">>
    => \E i \in DOMAIN lines :
          /\ i - 1 \in (Row(sel_end) - 1)..(Row(sel_end) + 1)
          /\ lines[i] = StartLine

\* C11, amended: after d, d, y, y the register holds the line the cursor is
\* on (the yank has replaced what dd stored), and p inserts a copy of that
\* line as a new row directly below it, moves the cursor onto the new row and
\* leaves the register as it is: the line that dd removed is not brought
\* back.
C11_PasteAfterYankCopiesCursorLine ==
    [][(nkeys' # nkeys /\ key' = "p" /\ trace = <<"d", "d", "y", "y">>)
       => /\ yank_register = lines[Row(sel_end) + 1] \o <<NL>>
          /\ lines' = SubSeq(lines, 1, Row(sel_end) + 1)
                      \o <<lines[Row(sel_end) + 1]>>
                      \o SubSeq(lines, Row(sel_end) + 2, Len(lines))
          /\ Row(sel_end') = Row(sel_end) + 1
          /\ yank_register' = yank_register]_vars

\* C11 witness: d, d, y, y, p on the middle line of line1 / line2 / line3 has
\* pasted a second line3 and line2 is gone.
C11_Witness ==
    /\ trace = <<"d", "d", "y", "y", "p">>
    /\ start = <<ThreeLines, <<1, 0>>>>
    /\ lines = <<ThreeLines[1], ThreeLines[3], ThreeLines[3]>>

\* The columns of line where char occurs strictly after (forward) or strictly
\* before (backward) column col.
Occurrences(line, char, col, forward) ==
    {i \in 0..(Len(line) - 1) :
        /\ At(line, i) = char
        /\ IF forward THEN i > col ELSE i < col}

\* C16: search_char_forward / search_char_backward look at the cursor's line
\* only, strictly after / before the cursor column.  When the character
\* occurs there the cursor moves to the nearest occurrence on the same row,
\* (kind, char) becomes the last search and True is returned; when it does
\* not (it may occur on another line, under or behind the cursor), cursor and
\* last search are unchanged and False is returned.
C16_FindOnCursorLine ==
    [][(/\ nkeys' # nkeys
        /\ call' # <<>>
        /\ call'[1] \in {"search_char_forward", "search_char_backward"})
       => LET forward == call'[1] = "search_char_forward"
              hits == Occurrences(lines[Row(sel_end) + 1], call'[2],
                                  Col(sel_end), forward)
          IN  /\ hits # {} =>
                    /\ result' = TRUE
                    /\ sel_end' = <<Row(sel_end),
                                    IF forward THEN SetMin(hits)
                                    ELSE SetMax(hits)>>
                    /\ last_f_search' =
                           <<IF forward THEN "f" ELSE "F", call'[2]>>
              /\ hits = {} =>
                    /\ result' = FALSE
                    /\ sel_end' = sel_end
                    /\ last_f_search' = last_f_search
              /\ lines' = lines]_vars

\* C16 witness: search_char_backward("l") from behind "hello world" has
\* reached the l of "world", the nearest one before the cursor.
C16_Witness ==
    /\ call = <<"search_char_backward", "l">>
    /\ result = TRUE
    /\ lines = HelloWorld
    /\ sel_end = <<0, 9>>
    /\ last_f_search = <<"F", "l">>

\* C17: once search_char_forward has succeeded (the last search is of kind
\* f), every search_repeat keeps the cursor on its row and either moves it to
\* a strictly greater column, returning True, or leaves it where it is,
\* returning False; the last search stays of kind f, so this holds for any
\* number of repeats.
C17_RepeatNeverMovesBack ==
    [][/\ (/\ nkeys' # nkeys
           /\ call' # <<>>
           /\ call'[1] = "search_char_forward"
           /\ result' = TRUE)
          => last_f_search' = <<"f", call'[2]>>
       /\ (/\ nkeys' # nkeys
           /\ call' = <<"search_repeat">>
           /\ last_f_search # NoPos
           /\ last_f_search[1] = "f")
          => /\ Row(sel_end') = Row(sel_end)
             /\ Col(sel_end') >= Col(sel_end)
             /\ result' = TRUE => Col(sel_end') > Col(sel_end)
             /\ result' = FALSE => sel_end' = sel_end
             /\ last_f_search' = last_f_search]_vars

\* C17 witness: search_char_forward("l") from the start of "hello world" and
\* two repeats have moved the cursor over the columns 2, 3 and 9.
C17_Witness ==
    /\ call = <<"search_repeat">>
    /\ result = TRUE
    /\ nkeys = 3
    /\ lines = HelloWorld
    /\ last_f_search = <<"f", "l">>
    /\ sel_end = <<0, 9>>

\* C18: nav_goto_line(n) puts the cursor at column 0 of row
\* clamp(n, 1, line_count) - 1, for n below 1 as well, and for every
\* n >= line_count at the same place as nav_goto_line(line_count).
C18_GotoLineClamps ==
    [][(/\ nkeys' # nkeys
        /\ call' # <<>>
        /\ call'[1] = "nav_goto_line")
       => /\ sel_end' = <<Clamp(call'[2], 1, Len(lines)) - 1, 0>>
          /\ call'[2] >= Len(lines) =>
                sel_end' = cursor_location(nav_goto_line(W, Len(lines)))
          /\ lines' = lines]_vars

\* C18 witness: a line number GotoSlack beyond the last line of a text of
\* several lines has put the cursor on the last line.
C18_Witness ==
    /\ call # <<>>
    /\ call[1] = "nav_goto_line"
    /\ call[2] = Len(lines) + GotoSlack
    /\ Len(lines) > 1
    /\ sel_end = <<Len(lines) - 1, 0>>

\* C13: a call of the text-object resolver or of delete / change / yank of a
\* text object never raises, whatever the line and the cursor column (end of
\* line and empty line included), and a delete / change / yank that finds no
\* object returns False and leaves text, register and mode unchanged.
C13_TextObjectsNeverRaise ==
    [][(/\ nkeys' # nkeys
        /\ call' # <<>>
        /\ call'[1] \in {"get_text_object", "delete_text_object",
                         "change_text_object", "yank_text_object"})
       => /\ error' = "None"
          /\ (call'[1] # "get_text_object" /\ result' = FALSE)
             => UNCHANGED <<lines, yank_register, vim_mode>>]_vars

\* The key reaches the command table: COMMAND mode with no operator and no
\* command pending.
AtCommandTable ==
    vim_mode = "COMMAND" /\ operator = "None" /\ pending_command = "None"

\* C21: p or P with an empty register, and J with the cursor on the last
\* line, leave text, cursor and selection, register and mode unchanged and
\* raise nothing.
C21_NoOpsAbsorbed ==
    [][(/\ nkeys' # nkeys
        /\ AtCommandTable
        /\ \/ key' \in {"p", "P"} /\ yank_register = <<>>
           \/ key' = "J" /\ Row(sel_end) = Len(lines) - 1)
       => /\ error' = "None"
          /\ UNCHANGED <<lines, sel_start, sel_end, yank_register, vim_mode>>]_vars

\* C21 witness: J was pressed on the last line of a text of several lines.
C21_Witness ==
    /\ key = "J"
    /\ nkeys = 1
    /\ Len(lines) > 1
    /\ Row(sel_end) = Len(lines) - 1
    /\ prevented

\* Where the motion of key k, repeated as the pending operator's total count
\* says, takes the cursor from the current state.
MotionEnd(k) == cursor_location(repeat_motion(W, k, get_total_count(W)))

\* A motion key is pressed with the given operator pending and a plain cursor.
OperatorMotion(ops) ==
    /\ nkeys' # nkeys
    /\ vim_mode = "COMMAND"
    /\ operator \in ops
    /\ key' \in MotionKeys \ DigitKeys
    /\ sel_start = sel_end

\* The motion ends on the cursor's row at another column.
SameRowMotion ==
    /\ Row(MotionEnd(key')) = Row(sel_end)
    /\ Col(MotionEnd(key')) # Col(sel_end)

\* The smaller and the larger of the motion's two columns.
RangeStart == Min(Col(sel_end), Col(MotionEnd(key')))

RangeEnd == Max(Col(sel_end), Col(MotionEnd(key')))

\* The cursor's line.
CursorLine == lines[Row(sel_end) + 1]

C23_YankLeavesCursorAtStart ==
    [][(OperatorMotion({"y"}) /\ SameRowMotion)
       => /\ yank_register' = Slice(CursorLine, RangeStart, RangeEnd)
          /\ lines' = lines
          /\ sel_end' = <<Row(sel_end), RangeStart>>]_vars

\* C24: when the motion of a pending operator leaves the cursor where it is,
\* text, register, cursor and mode stay as they are and no operator is
\* pending afterwards.
C24_UnmovedMotionIsNoOp ==
    [][(OperatorMotion({"d", "c", "y"}) /\ MotionEnd(key') = sel_end)
       => /\ UNCHANGED <<lines, yank_register, sel_start, sel_end, vim_mode>>
          /\ error' = "None"
          /\ operator' = "None"]_vars

RECURSIVE RowsWithNewlines(_, _)

\* The text of the rows from..to (0-based), each followed by a newline.
RowsWithNewlines(from, to) ==
    IF from > to THEN <<>>
    ELSE lines[from + 1] \o <<NL>> \o RowsWithNewlines(from + 1, to)

VisualMotionKeys == {"h", "j", "k", "l", "w", "b", "0", "dollar"}

\* Where a selection anchored at visual_start may start: at the anchor, or
\* one column after it when the anchor is the later endpoint and the
\* inclusive conversion has been applied to it.
AnchorEnds == {visual_start, make_inclusive_end(W, Row(visual_start), Col(visual_start))}

\* C26: in VISUAL mode a motion key leaves the anchor where Visual mode was
\* entered, in either direction: the selection still starts at the anchor
\* afterwards and only the live end has moved.
C26_VisualAnchorFixed ==
    [][(/\ nkeys' # nkeys
        /\ vim_mode = "VISUAL"
        /\ key' \in VisualMotionKeys
        /\ sel_start \in AnchorEnds)
       => /\ visual_start' = visual_start
          /\ sel_start' \in AnchorEnds]_vars

\* C27: in every state reachable by key events an anchor is recorded exactly
\* when the mode is VISUAL.
C27_AnchorIffVisual == (visual_start # NoPos) <=> (vim_mode = "VISUAL")

\* The leading spaces that dedent removes from a line: at most four.
DedentWidth(line) ==
    IF \E n \in 0..Min(4, Len(line)) : n = Len(line) \/ line[n + 1] # " "
    THEN SetMin({n \in 0..Min(4, Len(line)) :
                    /\ \A i \in 1..n : line[i] = " "
                    /\ n = Len(line) \/ n = 4 \/ line[n + 1] # " "})
    ELSE 4

\* C28: < in VISUAL mode removes min(4, leading spaces) spaces from every
\* line in the rows spanned by the selection, leaves the other lines alone
\* and raises nothing.
C28_VisualDedentNeverRaises ==
    [][(/\ nkeys' # nkeys
        /\ vim_mode = "VISUAL"
        /\ key' = "less_than")
       => /\ error' = "None"
          /\ lines' =
                 [i \in 1..Len(lines) |->
                     IF /\ i - 1 >= Min(Row(sel_start), Row(sel_end))
                        /\ i - 1 <= Max(Row(sel_start), Row(sel_end))
                     THEN Slice(lines[i], DedentWidth(lines[i]), Len(lines[i]))
                     ELSE lines[i]]]_vars

\* C29: search_till_forward and search_till_backward either report success
\* and have moved the cursor to another column, or report failure and have
\* left the cursor and the recorded last search as they were; a till whose
\* target is next to the cursor is a failure.
C29_TillMovesOrFails ==
    [][(/\ nkeys' # nkeys
        /\ call'[1] \in {"search_till_forward", "search_till_backward"})
       => \/ /\ result' = TRUE
             /\ Row(sel_end') = Row(sel_end)
             /\ Col(sel_end') # Col(sel_end)
          \/ /\ result' = FALSE
             /\ sel_end' = sel_end
             /\ last_f_search' = last_f_search]_vars

\* The cursor is on an alphanumeric character.
OnWord ==
    /\ Col(sel_end) < Len(CursorLine)
    /\ IsAlnum(At(CursorLine, Col(sel_end)))

\* Where the word under the cursor starts, and the word itself.
WordStartPos == <<Row(sel_end), alnum_run_start(CursorLine, Col(sel_end))>>

WordUnderCursor ==
    Slice(CursorLine, Col(WordStartPos), alnum_run_end(CursorLine, Col(sel_end)))

\* The positions of the document, other than the word's own, where the word
\* under the cursor occurs.
OtherOccurrences ==
    {p \in Positions(lines) :
        /\ Col(p) + Len(WordUnderCursor) <= Len(lines[Row(p) + 1])
        /\ Slice(lines[Row(p) + 1], Col(p), Col(p) + Len(WordUnderCursor))
               = WordUnderCursor
        /\ p # WordStartPos}

FirstPos(S) == CHOOSE p \in S : \A q \in S : PosLE(p, q)

LastPos(S) == CHOOSE p \in S : \A q \in S : PosLE(q, p)

\* The next occurrence after the word in document order, wrapping around.
NextOccurrence ==
    IF \E p \in OtherOccurrences : PosLE(WordStartPos, p)
    THEN FirstPos({p \in OtherOccurrences : PosLE(WordStartPos, p)})
    ELSE FirstPos(OtherOccurrences)

\* The previous occurrence before the word in document order, wrapping around.
PreviousOccurrence ==
    IF \E p \in OtherOccurrences : PosLE(p, WordStartPos)
    THEN LastPos({p \in OtherOccurrences : PosLE(p, WordStartPos)})
    ELSE LastPos(OtherOccurrences)

\* C30: with the cursor on a word, the word search succeeds whenever the word
\* occurs anywhere else in the document and moves the cursor to the start of
\* the next (forward) or previous (backward) occurrence in document order,
\* wrapping around the whole document, the cursor's own line included; it
\* fails, leaving the cursor where it is, only when there is no other
\* occurrence.
C30_WordSearchFindsOtherOccurrence ==
    [][(/\ nkeys' # nkeys
        /\ call'[1] = "search_word_under_cursor"
        /\ OnWord)
       => IF OtherOccurrences # {}
          THEN /\ result' = TRUE
               /\ sel_end' = IF call'[2] THEN NextOccurrence
                             ELSE PreviousOccurrence
          ELSE /\ result' = FALSE
               /\ sel_end' = sel_end]_vars

\* The first keys of the two-key commands, as pending_command holds them.
TwoKeyCommands == {"g", "r", "f", "F", "t", "T", ">", "<"}

\* C31: with the first key of a two-key command pending, the next key,
\* whatever it is, is consumed as the second key: no command is pending once
\* it has been handled.
C31_SecondKeyConsumed ==
    [][(/\ nkeys' # nkeys
        /\ vim_mode = "COMMAND"
        /\ operator = "None"
        /\ pending_command \in TwoKeyCommands)
       => \/ pending_command' = "None"
          \/ error' # "None"]_vars

\* C33: in every state reachable by key events an operator is pending only
\* while the mode is COMMAND.
C33_OperatorPendingOnlyInCommand == operator # "None" => vim_mode = "COMMAND"

\* C34: when the motion of a pending d, c or y ends on another row, the
\* command has no effect: text, register, mode and cursor are as before, no
\* operator is pending, and the motion key is not run as a navigation key.
C34_CrossRowMotionIsNoOp ==
    [][(/\ OperatorMotion({"d", "c", "y"})
        /\ Row(MotionEnd(key')) # Row(sel_end))
       => /\ UNCHANGED <<lines, yank_register, sel_start, sel_end, vim_mode>>
          /\ operator' = "None"]_vars

\* C35: after a key that is not a digit has been handled in COMMAND mode the
\* count accumulator is empty, so a count never carries over to a later
\* command.
C35_CountClearedAfterCommand ==
    [][(/\ nkeys' # nkeys
        /\ vim_mode = "COMMAND"
        /\ key' \notin DigitKeys)
       => \/ count' = 0 /\ count_str' = <<>>
          \/ error' # "None"]_vars

\* C36: search_repeat_reverse leaves the recorded last search as it is, so a
\* later search_repeat still searches in the original direction.
C36_ReverseRepeatKeepsLastSearch ==
    [][(nkeys' # nkeys /\ call'[1] = "search_repeat_reverse")
       => last_f_search' = last_f_search]_vars

\* C37: from a buffer of at least two lines with the cursor on a line that is
\* not the last, d, d, P gives back the buffer text as it was.
C37_DeleteLinePasteBeforeRestores ==
    (/\ trace = <<"d", "d", "P">>
     /\ Len(start[1]) >= 2
     /\ Row(start[2]) < Len(start[1]) - 1)
    => lines = start[1]

\* get_text_object has just resolved an object of one of the given
\* characters with the cursor on a column inside the line.
ObjectResolved(chars) ==
    /\ nkeys' # nkeys
    /\ call' # <<>>
    /\ call'[1] = "get_text_object"
    /\ call'[3] \in chars
    /\ Col(sel_end) < Len(CursorLine)
    /\ error' = "None"
    /\ result' # NoPos

\* The columns of the two delimiters of the range that was returned: inner is
\* [open+1, close) and around is [open, close+1).
OpenCol == IF call'[4] THEN Col(result'[1]) - 1 ELSE Col(result'[1])

CloseCol == IF call'[4] THEN Col(result'[2]) ELSE Col(result'[2]) - 1

RECURSIVE Balanced(_, _)
\* The text never closes more round brackets than it has opened, from depth
\* on, and ends at depth 0.
Balanced(text, depth) ==
    IF text = <<>> THEN depth = 0
    ELSE IF Head(text) = "(" THEN Balanced(Tail(text), depth + 1)
    ELSE IF Head(text) = ")" THEN depth > 0 /\ Balanced(Tail(text), depth - 1)
    ELSE Balanced(Tail(text), depth)

\* C38: whenever the bracket object resolves with the cursor inside the line,
\* the delimiters it has chosen are an opening and a closing bracket around
\* the cursor, open <= cursor column <= close, and the text strictly between
\* them is balanced, also with the cursor on a bracket of a nested pair.
C38_BracketObjectEnclosesCursor ==
    [][ObjectResolved({"(", ")"})
       => /\ Row(result'[1]) = Row(sel_end)
          /\ Row(result'[2]) = Row(sel_end)
          /\ OpenCol >= 0
          /\ OpenCol <= Col(sel_end)
          /\ Col(sel_end) <= CloseCol
          /\ CloseCol < Len(CursorLine)
          /\ At(CursorLine, OpenCol) = "("
          /\ At(CursorLine, CloseCol) = ")"
          /\ Balanced(Slice(CursorLine, OpenCol + 1, CloseCol), 0)]_vars

\* Column i of the cursor's line holds a double quote that no backslash
\* precedes.
UnescapedQuote(i) ==
    /\ At(CursorLine, i) = "\""
    /\ ~(i > 0 /\ At(CursorLine, i - 1) = "\\")

\* C39: whenever the quote object resolves with the cursor inside the line,
\* open <= cursor column <= close, open is the nearest unescaped quote at or
\* before the cursor, close is the nearest unescaped quote after open, and
\* inner is [open+1, close) while around is [open, close+1).
C39_QuoteObjectEnclosesCursor ==
    [][ObjectResolved({"\""})
       => /\ Row(result'[1]) = Row(sel_end)
          /\ Row(result'[2]) = Row(sel_end)
          /\ OpenCol >= 0
          /\ OpenCol <= Col(sel_end)
          /\ Col(sel_end) <= CloseCol
          /\ OpenCol < CloseCol
          /\ CloseCol < Len(CursorLine)
          /\ UnescapedQuote(OpenCol)
          /\ UnescapedQuote(CloseCol)
          /\ \A i \in (OpenCol + 1)..Col(sel_end) : ~UnescapedQuote(i)
          /\ \A i \in (OpenCol + 1)..(CloseCol - 1) : ~UnescapedQuote(i)]_vars

\* C39 witness: the inner quote object was resolved from inside a string of
\* the form "a\"", and the escaped quote was passed over.
C39_Witness ==
    /\ call # <<>>
    /\ call[1] = "get_text_object"
    /\ call[3] = "\""
    /\ call[4]
    /\ error = "None"
    /\ lines = Quoted
    /\ sel_end = <<0, 1>>
    /\ result = <<<<0, 1>>, <<0, 4>>>>

\* C40: a word search that succeeds lands on a whole-word occurrence: the run
\* of alphanumeric characters at the new cursor starts at the cursor and is
\* the searched word, never a longer word that contains it.
C40_WordSearchLandsOnWholeWord ==
    [][(/\ nkeys' # nkeys
        /\ call'[1] = "search_word_under_cursor"
        /\ OnWord
        /\ result' = TRUE)
       => /\ alnum_run_start(lines[Row(sel_end') + 1], Col(sel_end'))
                 = Col(sel_end')
          /\ Slice(lines[Row(sel_end') + 1], Col(sel_end'),
                   alnum_run_end(lines[Row(sel_end') + 1], Col(sel_end')))
                 = WordUnderCursor]_vars

\* The keys that C32 lists as leaving the register alone, by the state they
\* are pressed in: navigation, search, mode and paste keys at the command
\* table, the second key of a search, gg or indent command, the motions, the
\* case operators and the indent keys of VISUAL mode, and Escape.
RegisterFrameKey(k) ==
    \/ k = "escape"
    \/ /\ AtCommandTable
       /\ k \in {"h", "j", "k", "l", "w", "b", "e", "0", "dollar", "circumflex",
                 "g", "G", "f", "F", "t", "T", "semicolon", "comma",
                 "asterisk", "numbersign", "i", "a", "I", "A", "o", "O", "v",
                 "p", "P", "greater_than", "less_than"}
    \/ /\ vim_mode = "COMMAND"
       /\ operator = "None"
       /\ pending_command \in {"g", "f", "F", "t", "T", ">", "<"}
    \/ /\ vim_mode = "VISUAL"
       /\ k \in {"h", "j", "k", "l", "w", "b", "0", "dollar", "tilde", "U", "u",
                 "greater_than", "less_than"}

====
